---- MODULE Spec2Model ----
(***************************************************************************)
(* Yotpo -> Shopify metaobject review sync.                                *)
(*                                                                         *)
(* The module models one store: the Yotpo feed, the Shopify destination    *)
(* (review metaobjects of two types, statistics metaobjects, the product  *)
(* catalog), the persisted .sync-cache.json file, and successive runs of  *)
(* syncReviews() (src/src/sync-statistics.js, second half of the file).   *)
(* A run is a sequence of steps that suspend at the awaits of the code.   *)
(***************************************************************************)
EXTENDS Integers, Sequences, FiniteSets, TLC

\* ------------------------------------------------------------------------
\* Bounds of the model
\* ------------------------------------------------------------------------
MaxFeed == 3        \* longest feed
MaxRuns == 2        \* runs of syncReviews in one behaviour
MaxFaults == 2      \* failed requests (error answers, 401s) in one behaviour
MaxList == 3        \* longest list of reviews handed to a statistics calculator
MaxBatches == 1     \* full batches of PauseEvery reviews in a long feed
MaxPages == 2       \* full pages of PageSize reviews in a paged feed
MaxBuilds == 2      \* calls of buildProductCache on one ProductMapper
MaxShopFeed == 2    \* longest feed of a shop on which both scripts are run

\* ------------------------------------------------------------------------
\* Program constants
\* ------------------------------------------------------------------------
BrandSku == "yotpo_site_reviews"
GlobalSku == "_global_all_reviews"
ProductType == "yotpo_product_review"
BrandType == "yotpo_brand_review"
PauseEvery == 50
PageSize == 100
ReviewTypes == {ProductType, BrandType}

\* ------------------------------------------------------------------------
\* Reviews of the feed.  A review carries the fields the code reads.
\* "" and 0 are the falsy values of JavaScript (missing title, no score).
\* ------------------------------------------------------------------------
Rev(id, sku, score, content, email) ==
    [id |-> id, sku |-> sku, score |-> score, title |-> "t", content |-> content,
     name |-> "n", votes_up |-> 0, votes_down |-> 0, deleted |-> FALSE,
     archived |-> FALSE, updated_at |-> 1, email |-> email, sentiment |-> 1]

\* The kinds of feed entry: a product review whose sku is a variant SKU of the
\* catalog ("A"), a product review whose sku matches nothing ("X"), a brand
\* review ("B"), a second occurrence of review 1 with edited content ("D",
\* e.g. a review that moved to the next page while the feed was being read),
\* a deleted review ("Z") and a review without title ("T").
Kinds == {"A", "X", "B", "D", "Z", "T"}

\* The review at position p of a feed: ids are the positions, so that feeds
\* that differ only in the naming of the ids are explored once.
Entry(kind, p) ==
    CASE kind = "A" -> Rev(p, "A", 5, "c", "e")
      [] kind = "X" -> Rev(p, "X", 4, "c", "e")
      [] kind = "B" -> Rev(p, BrandSku, 3, "c", "e")
      [] kind = "D" -> Rev(1, "A", 2, "c&amp;2", "e")
      [] kind = "Z" -> [Rev(p, "A", 1, "c", "e") EXCEPT !.deleted = TRUE]
      [] kind = "T" -> [Rev(p, "A", 5, "c", "e") EXCEPT !.title = ""]

Feeds ==
    UNION { { [p \in 1..n |-> Entry(ks[p], p)] : ks \in [1..n -> Kinds] } : n \in 0..MaxFeed }

\* Earlier versions of a review: what the feed held when an earlier run synced
\* it.  Either only a field outside the fingerprint differed, or the content.
OlderSameFingerprint(r) == [r EXCEPT !.email = "e0", !.sentiment = 0]
OlderContent(r) == [r EXCEPT !.content = "c0"]

\* ------------------------------------------------------------------------
\* The product catalog of the shop (fixed): one product with one variant.
\* A GID is the list of its "/"-separated parts.
\* ------------------------------------------------------------------------
ProductGid == <<"gid:", "", "shopify", "Product", "777">>
\* The catalog as the pages the products query returns.
CatalogPages == << <<[id |-> ProductGid, title |-> "P", variants |-> <<[id |-> "v1", sku |-> "A"]>>]>> >>

Range(s) == { s[k] : k \in DOMAIN s }

\* A JavaScript object / Map used as a string-keyed map: a function.
EmptyMap == << >>
MapSet(m, k, v) == [x \in (DOMAIN m) \cup {k} |-> IF x = k THEN v ELSE m[x]]
MapHas(m, k) == k \in DOMAIN m


\* null / undefined of JavaScript, for a product GID and for a metaobject
NoProduct == << >>
NoObject == [id |-> 0, fields |-> << >>]

\* ------------------------------------------------------------------------
\* src/unnamed/part_000: decodeHtmlEntities, on the texts of the model
\* ------------------------------------------------------------------------
decodeHtmlEntities(text) ==
    CASE text = "c&amp;2" -> "c&2"
      [] text = "&lt;t&gt;" -> "<t>"
      [] OTHER -> text

\* ------------------------------------------------------------------------
\* src/src/transformers/review-transformer.js
\* ------------------------------------------------------------------------
BoolToString(b) == IF b THEN "true" ELSE "false"

\* The field list as a map key -> value; a key that is not pushed is absent.
transformYotpoReview(yotpoReview, productId, now) ==
    LET isBrandReview == yotpoReview.sku = BrandSku
        isActive == ~yotpoReview.deleted /\ ~yotpoReview.archived
        base == [yotpo_id |-> ToString(yotpoReview.id),
                 rating |-> ToString(yotpoReview.score),
                 title |-> decodeHtmlEntities(yotpoReview.title),
                 content |-> decodeHtmlEntities(yotpoReview.content),
                 reviewer_name |-> IF decodeHtmlEntities(yotpoReview.name) = ""
                                   THEN "Anonymous"
                                   ELSE decodeHtmlEntities(yotpoReview.name),
                 is_active |-> BoolToString(isActive),
                 synced_at |-> now,
                 sentiment_score |-> ToString(yotpoReview.sentiment),
                 helpful_votes |-> ToString(yotpoReview.votes_up)]
        email == IF yotpoReview.email # ""
                 THEN [reviewer_email |-> yotpoReview.email] ELSE << >>
        sku == IF ~isBrandReview THEN [product_sku |-> yotpoReview.sku] ELSE << >>
        ref == IF ~isBrandReview /\ productId # NoProduct
               THEN [product_reference |-> productId] ELSE << >>
    IN  [fields |-> base @@ email @@ sku @@ ref,
         isBrandReview |-> isBrandReview,
         isActive |-> isActive]

shouldSyncReviewWithRetired(yotpoReview) ==
    /\ yotpoReview.id # 0 /\ yotpoReview.score # 0 /\ yotpoReview.title # ""
    /\ yotpoReview.content # "" /\ yotpoReview.sku # ""

shouldSyncReviewIgnoringTitle(yotpoReview) ==
    /\ ~yotpoReview.deleted /\ ~yotpoReview.archived
    /\ yotpoReview.id # 0 /\ yotpoReview.score # 0
    /\ yotpoReview.content # "" /\ yotpoReview.sku # ""

shouldSyncReview(yotpoReview) ==
    LET isActive == ~yotpoReview.deleted /\ ~yotpoReview.archived
        hasRequiredFields ==
            /\ yotpoReview.id # 0
            /\ yotpoReview.score # 0
            /\ yotpoReview.title # ""
            /\ yotpoReview.content # ""
            /\ yotpoReview.sku # ""
    IN  isActive /\ hasRequiredFields

\* ------------------------------------------------------------------------
\* src/src/utils/sync-cache.js
\* A cache document is [lastSync, hasReviews, reviews]: hasReviews is FALSE
\* for a parsed JSON document that has no "reviews" member.  lastSync 0 is
\* null.  Timestamps are the number of the run that wrote them.
\* ------------------------------------------------------------------------
createEmptyCache == [lastSync |-> 0, hasReviews |-> TRUE, reviews |-> EmptyMap]

\* The cache file: missing, not parsable, or a JSON document.
loadCache(file) ==
    IF file.kind = "json" THEN file.doc ELSE createEmptyCache

\* JSON.stringify of the relevant fields (in the order of the literal),
\* hashed; the digest is taken to be free of collisions on the model's reviews.
createReviewHashKeepingEmail(review) ==
    <<review.score, review.title, review.content, review.name, review.votes_up,
      review.votes_down, review.deleted, review.archived, review.updated_at,
      review.email>>

createReviewHash(review) ==
    <<review.score, review.title, review.content, review.name, review.votes_up,
      review.votes_down, review.deleted, review.archived, review.updated_at>>

\* needsSync reads this.cache.reviews[yotpoId]: a TypeError when the
\* document has no reviews map.
needsSyncThrows(cache) == ~cache.hasReviews

needsSyncAlways(cache, review) == TRUE

needsSync(cache, review) ==
    LET yotpoId == ToString(review.id)
        currentHash == createReviewHash(review)
    IN  IF ~MapHas(cache.reviews, yotpoId)
        THEN TRUE
        ELSE currentHash # cache.reviews[yotpoId].hash

markSyncedAlone(cache, review, now) ==
    [cache EXCEPT !.reviews = MapSet(EmptyMap, ToString(review.id),
                                     [hash |-> createReviewHash(review), lastSynced |-> now])]

markSynced(cache, review, now) ==
    LET yotpoId == ToString(review.id)
        hash == createReviewHash(review)
    IN  [cache EXCEPT !.reviews = MapSet(@, yotpoId, [hash |-> hash, lastSynced |-> now])]

updateLastSyncTime(cache, now) == [cache EXCEPT !.lastSync = now]

\* JSON.stringify(this.cache) written to the file
saveCache(cache) == [kind |-> "json", doc |-> cache]


\* ------------------------------------------------------------------------
\* src/src/utils/product-mapper.js
\* ------------------------------------------------------------------------
NewProductMapper == [skuToProductCache |-> EmptyMap, idToProductCache |-> EmptyMap,
                     cacheFetched |-> FALSE]

extractNumericId(gid) == IF gid = NoProduct THEN "" ELSE gid[Len(gid)]

RECURSIVE IndexVariants(_, _, _)
IndexVariants(skuMap, variants, productData) ==
    IF variants = << >> THEN skuMap
    ELSE IndexVariants(IF Head(variants).sku # ""
                       THEN MapSet(skuMap, Head(variants).sku, productData)
                       ELSE skuMap,
                       Tail(variants), productData)

\* One product of a page: data.products.edges.forEach body
IndexProduct(mapper, product) ==
    LET productData == [productId |-> product.id, productTitle |-> product.title]
        numericId == extractNumericId(product.id)
    IN  [mapper EXCEPT
           !.idToProductCache = IF numericId # "" THEN MapSet(@, numericId, productData) ELSE @,
           !.skuToProductCache = IndexVariants(@, product.variants, productData)]

RECURSIVE IndexPage(_, _)
IndexPage(mapper, page) ==
    IF page = << >> THEN mapper
    ELSE IndexPage(IndexProduct(mapper, Head(page)), Tail(page))

RECURSIVE IndexPages(_, _)
IndexPages(mapper, pages) ==
    IF pages = << >> THEN mapper
    ELSE IndexPages(IndexPage(mapper, Head(pages)), Tail(pages))

\* buildProductCache when every page request succeeds
buildProductCache(mapper, pages) ==
    IF mapper.cacheFetched THEN mapper
    ELSE [IndexPages(mapper, pages) EXCEPT !.cacheFetched = TRUE]

getProductIdBySkuIdFirst(mapper, yotpoSku) ==
    IF yotpoSku = "" \/ yotpoSku = BrandSku THEN NoProduct
    ELSE IF MapHas(mapper.idToProductCache, yotpoSku)
         THEN mapper.idToProductCache[yotpoSku].productId
         ELSE IF MapHas(mapper.skuToProductCache, yotpoSku)
              THEN mapper.skuToProductCache[yotpoSku].productId
              ELSE NoProduct

getProductIdBySku(mapper, yotpoSku) ==
    IF yotpoSku = "" \/ yotpoSku = BrandSku THEN NoProduct
    ELSE IF MapHas(mapper.skuToProductCache, yotpoSku)
         THEN mapper.skuToProductCache[yotpoSku].productId
         ELSE IF MapHas(mapper.idToProductCache, yotpoSku)
              THEN mapper.idToProductCache[yotpoSku].productId
              ELSE NoProduct

\* null of JavaScript for the details of a product
NoDetails == [null |-> TRUE]

getProductDetailsBySkuIdFirst(mapper, yotpoSku) ==
    IF yotpoSku = "" \/ yotpoSku = BrandSku THEN NoDetails
    ELSE IF MapHas(mapper.idToProductCache, yotpoSku)
         THEN mapper.idToProductCache[yotpoSku] @@ [matchType |-> "product_id"]
         ELSE IF MapHas(mapper.skuToProductCache, yotpoSku)
              THEN mapper.skuToProductCache[yotpoSku] @@ [matchType |-> "variant_sku"]
              ELSE NoDetails

getProductDetailsBySku(mapper, yotpoSku) ==
    IF yotpoSku = "" \/ yotpoSku = BrandSku THEN NoDetails
    ELSE IF MapHas(mapper.skuToProductCache, yotpoSku)
         THEN mapper.skuToProductCache[yotpoSku] @@ [matchType |-> "variant_sku"]
         ELSE IF MapHas(mapper.idToProductCache, yotpoSku)
              THEN mapper.idToProductCache[yotpoSku] @@ [matchType |-> "product_id"]
              ELSE NoDetails

clearCache(mapper) == NewProductMapper

\* ------------------------------------------------------------------------
\* src/src/transformers/statistics-calculator.js
\* averageRating is held in hundredths: 360 is 3.60.
\* ------------------------------------------------------------------------
RECURSIVE SumScores(_)
SumScores(reviews) ==
    IF reviews = << >> THEN 0 ELSE Head(reviews).score + SumScores(Tail(reviews))

CountStar(reviews, n) == Cardinality({k \in DOMAIN reviews : reviews[k].score = n})

\* (x / n).toFixed(2) as hundredths, for n > 0
ToFixed2(x, n) == (200 * x + n) \div (2 * n)

SkuOrUnknown(review) == IF review.sku = "" THEN "unknown" ELSE review.sku

StatKeysFirstOnly(reviews, seen) ==
    IF reviews = << >> THEN seen ELSE <<SkuOrUnknown(Head(reviews))>>

\* the keys of statsByProduct in the order of their insertion: a review
\* inserts its key when no earlier review (and no key already seen) has it
StatKeys(reviews, seen) ==
    LET key(j) == SkuOrUnknown(reviews[j])
        inserting == SelectSeq([j \in 1..Len(reviews) |-> j],
                               LAMBDA j : /\ key(j) \notin Range(seen)
                                          /\ \A m \in 1..(j - 1) : key(m) # key(j))
    IN  seen \o [n \in 1..Len(inserting) |-> key(inserting[n])]

StatRecord(sku, members, now) ==
    [productSku |-> sku,
     averageRating |-> IF Len(members) > 0 THEN ToFixed2(SumScores(members), Len(members)) ELSE 0,
     totalReviews |-> Len(members),
     fiveStarCount |-> CountStar(members, 5),
     fourStarCount |-> CountStar(members, 4),
     threeStarCount |-> CountStar(members, 3),
     twoStarCount |-> CountStar(members, 2),
     oneStarCount |-> CountStar(members, 1),
     lastUpdated |-> now]

\* an argument that is left out (undefined)
Missing == <<[missing |-> TRUE]>>

\* statsByProduct is a plain object: for a sku that names a member of
\* Object.prototype, statsByProduct[sku] is that inherited member, so the
\* group is not created and statsByProduct[sku].ratings.push throws.
InheritedKeys == {"constructor", "__proto__"}
TypeError == [error |-> "TypeError"]

\* The result object as [keys, recs]: Object.keys order and the records.
calculateReviewStatistics(reviews, now) ==
    IF reviews = Missing THEN [keys |-> << >>, recs |-> << >>]
    ELSE IF \E j \in DOMAIN reviews : reviews[j].sku \in InheritedKeys THEN TypeError
    ELSE LET keys == StatKeys(reviews, << >>)
         IN  [keys |-> keys,
              recs |-> [k \in Range(keys) |->
                          StatRecord(k, SelectSeq(reviews, LAMBDA r : SkuOrUnknown(r) = k),
                                     now)]]

calculateGlobalStatisticsWithoutGuard(reviews, now) ==
    IF reviews = Missing THEN TypeError
    ELSE StatRecord(GlobalSku, reviews, now)

calculateGlobalStatistics(reviews, now) ==
    IF reviews = Missing \/ Len(reviews) = 0
    THEN [productSku |-> GlobalSku, averageRating |-> 0, totalReviews |-> 0,
          fiveStarCount |-> 0, fourStarCount |-> 0, threeStarCount |-> 0,
          twoStarCount |-> 0, oneStarCount |-> 0, lastUpdated |-> now]
    ELSE StatRecord(GlobalSku, reviews, now)

transformStatisticsToMetaobject(statistics) ==
    [product_sku |-> statistics.productSku,
     average_rating |-> ToString(statistics.averageRating),
     total_reviews |-> ToString(statistics.totalReviews),
     five_star_count |-> ToString(statistics.fiveStarCount),
     four_star_count |-> ToString(statistics.fourStarCount),
     three_star_count |-> ToString(statistics.threeStarCount),
     two_star_count |-> ToString(statistics.twoStarCount),
     one_star_count |-> ToString(statistics.oneStarCount),
     last_updated |-> statistics.lastUpdated]


\* ------------------------------------------------------------------------
\* src/src/clients/shopify-client.js
\* The destination holds, per review type, a set of metaobjects
\* [id, fields]; ids are assigned by the destination on creation.
\* ------------------------------------------------------------------------
\* the id the shop gives the next object of a collection
NewId(objects) == Cardinality(objects) + 1

createMetaobjectLost(objects, fields) == objects

\* metaobjectCreate that succeeds
createMetaobject(objects, fields) == objects \cup {[id |-> NewId(objects), fields |-> fields]}

\* metaobjectUpdate that succeeds: the given keys are set, the others kept
updateMetaobject(objects, gid, fields) ==
    { IF o.id = gid THEN [id |-> gid, fields |-> fields @@ o.fields] ELSE o : o \in objects }

ObjectById(objects, gid) == CHOOSE o \in objects : o.id = gid

\* buildMetaobjectCache: the Map yotpo_id -> metaobject of one type, read from
\* the destination page by page (objects in the order of their ids; a later
\* object with the same yotpo_id replaces an earlier one).
RECURSIVE IndexObjects(_, _)
IndexObjects(cache, objects) ==
    IF objects = {} THEN cache
    ELSE LET o == CHOOSE x \in objects : \A y \in objects : x.id <= y.id
         IN  IndexObjects(IF "yotpo_id" \in DOMAIN o.fields
                          THEN MapSet(cache, o.fields.yotpo_id, o) ELSE cache,
                          objects \ {o})

buildMetaobjectCache(objects) == IndexObjects(EmptyMap, objects)

\* _metaobjectCache: per type either not built or the Map
NewMetaobjectCache == [t \in ReviewTypes |-> [built |-> FALSE, map |-> EmptyMap]]

findMetaobjectByYotpoIdNeverFinds(moc, type, yotpoId) == NoObject

\* with the cache of the type built (syncReviews builds both before any upsert)
findMetaobjectByYotpoId(moc, type, yotpoId) ==
    IF MapHas(moc[type].map, ToString(yotpoId))
    THEN moc[type].map[ToString(yotpoId)]
    ELSE NoObject

updateMetaobjectCacheForgets(moc, type, yotpoId, metaobject) == moc

updateMetaobjectCache(moc, type, yotpoId, metaobject) ==
    IF moc[type].built
    THEN [moc EXCEPT ![type].map = MapSet(@, ToString(yotpoId), metaobject)]
    ELSE moc

getStatisticsMetaobjectBySkuNeverFinds(objects, sku) == NoObject

\* getStatisticsMetaobjectBySku on a destination whose statistics objects fit
\* one page: the first object of the page whose product_sku is sku
getStatisticsMetaobjectBySku(objects, sku) ==
    LET hits == { o \in objects : "product_sku" \in DOMAIN o.fields /\ o.fields.product_sku = sku }
    IN  IF hits = {} THEN NoObject
        ELSE CHOOSE o \in hits : \A y \in hits : o.id <= y.id


\* ------------------------------------------------------------------------
\* State
\* ------------------------------------------------------------------------
VARIABLES
    feed,           \* the reviews the Yotpo API returns, in page order
    cacheFile,      \* .sync-cache.json: [kind, doc]
    dest,           \* review metaobjects of the shop, per type
    statsDest,      \* yotpo_review_statistics metaobjects of the shop
    pc,             \* where the current run of syncReviews stands
    runNo,          \* number of runs started
    token,          \* YotpoClient.token (0: null)
    authRetries,    \* 401 answers received by the current getAllReviews call
    syncCache,      \* SyncCache.cache
    mapper,         \* ProductMapper
    moCache,        \* ShopifyClient._metaobjectCache
    activeReviews, reviewsToSync, productReviews, brandReviews,
    i,              \* loop index (1-based)
    stats,          \* the stats object of syncReviews
    statsCount,     \* statsCreated / statsUpdated / statsErrors of syncStatistics
    reqs,           \* requests sent in the current run, per kind
    log,            \* the reviews processed in the current run, with their outcome
    last,           \* the last event of the run
    exit,           \* [code, how]: code -1 while the process runs
    cacheAtStart,   \* the cache file when the current run started
    destAtStart,    \* the review and statistics objects when the current run started
    prev,           \* the previous run: how it ended, and whether it left no review unsynced
    prevFailed,     \* reviews whose upsert failed in the previous run
    faults,         \* failed requests so far
    call            \* a call of a function of the program on its own:
                    \* [fn, args, local, done, result]

vars == <<feed, cacheFile, dest, statsDest, pc, runNo, token, authRetries,
          syncCache, mapper, moCache, activeReviews, reviewsToSync, productReviews,
          brandReviews, i, stats, statsCount, reqs, log, last, exit, cacheAtStart,
          destAtStart, prev, prevFailed, faults, call>>

\* what no step of a run changes
fixed == <<feed, call>>
store == <<fixed, cacheFile, dest, statsDest>>
lists == <<activeReviews, reviewsToSync, productReviews, brandReviews>>
history == <<cacheAtStart, destAtStart, prev, prevFailed>>

\* the wall clock, read as the number of the run
now == runNo + 1

ZeroCounts == [created |-> 0, updated |-> 0, skipped |-> 0, errors |-> 0]
ZeroStats == [total |-> 0, filtered |-> 0, cached |-> 0,
              productReviews |-> ZeroCounts, brandReviews |-> ZeroCounts,
              skuMatches |-> [matched |-> 0, notFound |-> 0]]
ZeroStatsCount == [created |-> 0, updated |-> 0, errors |-> 0]
ZeroReqs == [feed |-> 0, catalog |-> 0, mcache |-> 0, create |-> 0, update |-> 0,
             statLookup |-> 0, statWrite |-> 0]
NoEvent == [kind |-> "none", outcome |-> "none"]
Running == [code |-> -1, how |-> "running"]

Succeeded == {"created", "updated"}
Failed == {"userErrors", "exception"}

\* reviews of a run's log whose upsert failed and whose id no upsert of the run wrote
FailedOnly(l) ==
    { l[k].rev : k \in { j \in DOMAIN l :
        /\ l[j].outcome \in Failed
        /\ \A m \in DOMAIN l : l[m].rev.id = l[j].rev.id => l[m].outcome \notin Succeeded } }

TypeOf(review) == IF review.sku = BrandSku THEN BrandType ELSE ProductType

\* ------------------------------------------------------------------------
\* Initial states: a shop that was never synced (no cache file, or a cache
\* file that is a JSON document without a reviews map), or a shop in which an
\* earlier run synced an older version of the first review of the feed.
\* ------------------------------------------------------------------------
EarlierRun(r0) ==
    LET pm == buildProductCache(NewProductMapper, CatalogPages)
        st == calculateReviewStatistics(<<r0>>, 1)
    IN  [cacheFile |-> saveCache(updateLastSyncTime(markSynced(createEmptyCache, r0, 1), 1)),
         dest |-> [t \in ReviewTypes |->
                     IF t = TypeOf(r0)
                     THEN {[id |-> 1, fields |->
                              transformYotpoReview(r0, getProductIdBySku(pm, r0.sku), 1).fields]}
                     ELSE {}],
         statsDest |-> { [id |-> 1, fields |-> transformStatisticsToMetaobject(st.recs[r0.sku])],
                         [id |-> 2, fields |->
                              transformStatisticsToMetaobject(calculateGlobalStatistics(<<r0>>, 1))] }]

NeverSynced(file) ==
    [cacheFile |-> file, dest |-> [t \in ReviewTypes |-> {}], statsDest |-> {}]

Resolvable(sku) ==
    \E p \in DOMAIN CatalogPages : \E q \in DOMAIN CatalogPages[p] :
        \/ extractNumericId(CatalogPages[p][q].id) = sku
        \/ \E v \in DOMAIN CatalogPages[p][q].variants : CatalogPages[p][q].variants[v].sku = sku

InitialStores(f) ==
    {NeverSynced([kind |-> "missing", doc |-> createEmptyCache]),
     NeverSynced([kind |-> "json",
                  doc |-> [lastSync |-> 0, hasReviews |-> FALSE, reviews |-> EmptyMap]])}
    \cup (IF Len(f) > 0 /\ shouldSyncReview(f[1])
             /\ (f[1].sku = BrandSku \/ Resolvable(f[1].sku))
          THEN {EarlierRun(OlderSameFingerprint(f[1])), EarlierRun(OlderContent(f[1]))}
          ELSE {})

\* the state before a run, on feed f with the stores s, after a number of
\* earlier runs in which a number of requests failed
IdleAt(f, s, run, spent) ==
    /\ feed = f
    /\ cacheFile = s.cacheFile
    /\ dest = s.dest
    /\ statsDest = s.statsDest
    /\ pc = "idle"
    /\ runNo = run
    /\ token = 0
    /\ authRetries = 0
    /\ syncCache = createEmptyCache
    /\ mapper = NewProductMapper
    /\ moCache = NewMetaobjectCache
    /\ activeReviews = << >>
    /\ reviewsToSync = << >>
    /\ productReviews = << >>
    /\ brandReviews = << >>
    /\ i = 0
    /\ stats = ZeroStats
    /\ statsCount = ZeroStatsCount
    /\ reqs = ZeroReqs
    /\ log = << >>
    /\ last = NoEvent
    /\ exit = Running
    /\ cacheAtStart = s.cacheFile
    /\ destAtStart = <<s.dest, s.statsDest>>
    /\ prev = [how |-> "none", clean |-> FALSE]
    /\ prevFailed = {}
    /\ faults = spent

\* the state before the first run
Idle(f, s) == IdleAt(f, s, 0, 0)

NoLocals == << >>
NoCall == [fn |-> "none", args |-> << >>, local |-> NoLocals, done |-> FALSE, result |-> << >>]

Init ==
    /\ \E f \in Feeds : \E s \in InitialStores(f) : Idle(f, s)
    /\ call = NoCall


\* ------------------------------------------------------------------------
\* syncReviews, src/src/sync-statistics.js lines 159-429
\* ------------------------------------------------------------------------
\* catch (error) { ...; process.exit(1) }
Fatal(what) ==
    /\ pc' = "exited"
    /\ exit' = [code |-> 1, how |-> "fatal"]
    /\ last' = [kind |-> "fatal", outcome |-> what]

\* A new process: clients, mapper and cache object are constructed; the
\* SyncCache constructor loads the cache file.
StartRun ==
    /\ pc \in {"idle", "exited"}
    /\ runNo < MaxRuns
    /\ runNo' = runNo + 1
    /\ pc' = "auth"
    /\ token' = 0
    /\ authRetries' = 0
    /\ syncCache' = loadCache(cacheFile)
    /\ mapper' = NewProductMapper
    /\ moCache' = NewMetaobjectCache
    /\ activeReviews' = << >>
    /\ reviewsToSync' = << >>
    /\ productReviews' = << >>
    /\ brandReviews' = << >>
    /\ i' = 0
    /\ stats' = ZeroStats
    /\ statsCount' = ZeroStatsCount
    /\ reqs' = ZeroReqs
    /\ log' = << >>
    /\ last' = NoEvent
    /\ exit' = Running
    /\ cacheAtStart' = cacheFile
    /\ destAtStart' = <<dest, statsDest>>
    /\ prev' = [how |-> IF pc = "idle" THEN "none" ELSE exit.how,
                clean |-> /\ pc = "exited"
                          /\ exit.code = 0
                          /\ stats.productReviews.skipped = 0
                          /\ stats.productReviews.errors = 0
                          /\ stats.brandReviews.errors = 0]
    /\ prevFailed' = FailedOnly(log)
    /\ UNCHANGED <<store, faults>>

\* getAllReviews, first call: no token yet, authenticate() posts the
\* client credentials and stores the token
Authenticate ==
    /\ UNCHANGED faults
    /\ pc = "auth"
    /\ token = 0
    /\ token' = 1
    /\ pc' = "fetch"
    /\ last' = [kind |-> "auth", outcome |-> "ok"]
    /\ UNCHANGED <<store, runNo, authRetries, syncCache, mapper, moCache, lists, i, stats,
                   statsCount, reqs, log, exit, history>>

\* the token request is refused: authenticate() throws
AuthenticateFails ==
    /\ faults < MaxFaults
    /\ faults' = faults + 1
    /\ pc = "auth"
    /\ token = 0
    /\ Fatal("authentication")
    /\ UNCHANGED <<store, runNo, token, authRetries, syncCache, mapper, moCache, lists, i,
                   stats, statsCount, reqs, log, history>>

NoActiveReviewsNever(active) == FALSE

\* if (activeReviews.length === 0)
NoActiveReviews(active) == Len(active) = 0

\* if (reviewsToSync.length === 0)
NothingToSyncNever(toSync) == FALSE

NothingToSync(toSync) == Len(toSync) = 0

\* Steps 1, 2 and 2.5: the feed answers; filter; diff against the cache.
\* (A feed of fewer than 100 reviews is one page.)
FetchReviews ==
    /\ UNCHANGED faults
    /\ pc = "fetch"
    /\ LET allReviews == feed
           active == SelectSeq(allReviews, shouldSyncReview)
           toSync == SelectSeq(active, LAMBDA r : needsSync(syncCache, r))
           counted == [stats EXCEPT !.total = Len(allReviews),
                                    !.filtered = Len(allReviews) - Len(active)]
       IN  /\ reqs' = [reqs EXCEPT !.feed = @ + 1]
           /\ IF NoActiveReviews(active)
              THEN /\ pc' = "exited"
                   /\ exit' = [code |-> 0, how |-> "noActive"]
                   /\ last' = [kind |-> "return", outcome |-> "noActive"]
                   /\ stats' = counted
                   /\ UNCHANGED <<cacheFile, syncCache, lists>>
              ELSE IF needsSyncThrows(syncCache)
              THEN /\ Fatal("cache")
                   /\ stats' = counted
                   /\ activeReviews' = active
                   /\ UNCHANGED <<cacheFile, syncCache, reviewsToSync, productReviews,
                                  brandReviews>>
              ELSE IF NothingToSync(toSync)
              THEN /\ pc' = "exited"
                   /\ exit' = [code |-> 0, how |-> "upToDate"]
                   /\ last' = [kind |-> "return", outcome |-> "upToDate"]
                   /\ stats' = [counted EXCEPT !.cached = Len(active) - Len(toSync)]
                   /\ syncCache' = updateLastSyncTime(syncCache, now)
                   /\ cacheFile' = saveCache(syncCache')
                   /\ activeReviews' = active
                   /\ reviewsToSync' = toSync
                   /\ UNCHANGED <<productReviews, brandReviews>>
              ELSE /\ pc' = "products"
                   /\ last' = [kind |-> "fetch", outcome |-> "ok"]
                   /\ stats' = [counted EXCEPT !.cached = Len(active) - Len(toSync)]
                   /\ activeReviews' = active
                   /\ reviewsToSync' = toSync
                   /\ UNCHANGED <<cacheFile, syncCache, productReviews, brandReviews, exit>>
    /\ authRetries' = 0
    /\ UNCHANGED <<fixed, dest, statsDest, runNo, token, mapper, moCache,
                   i, statsCount, log, history>>

\* The feed answers 401: authenticate() returns the token it holds (line 22)
\* and getAllReviews calls itself with the same page.
FetchUnauthorized ==
    /\ faults < MaxFaults
    /\ faults' = faults + 1
    /\ pc = "fetch"
    /\ authRetries' = authRetries + 1
    /\ reqs' = [reqs EXCEPT !.feed = @ + 1]
    /\ last' = [kind |-> "fetch", outcome |-> "401"]
    /\ UNCHANGED <<store, pc, runNo, token, syncCache, mapper, moCache, lists, i, stats,
                   statsCount, log, exit, history>>

\* the feed answers another error status: getAllReviews throws
FetchFails ==
    /\ faults < MaxFaults
    /\ faults' = faults + 1
    /\ pc = "fetch"
    /\ reqs' = [reqs EXCEPT !.feed = @ + 1]
    /\ Fatal("feed")
    /\ UNCHANGED <<store, runNo, token, authRetries, syncCache, mapper, moCache, lists, i,
                   stats, statsCount, log, history>>

\* Step 3
BuildProductCache ==
    /\ UNCHANGED faults
    /\ pc = "products"
    /\ mapper' = buildProductCache(mapper, CatalogPages)
    /\ reqs' = [reqs EXCEPT !.catalog = @ + Len(CatalogPages)]
    /\ pc' = "mcacheProduct"
    /\ last' = [kind |-> "products", outcome |-> "ok"]
    /\ UNCHANGED <<store, runNo, token, authRetries, syncCache, moCache, lists, i, stats,
                   statsCount, log, exit, history>>

BuildProductCacheFails ==
    /\ faults < MaxFaults
    /\ faults' = faults + 1
    /\ pc = "products"
    /\ reqs' = [reqs EXCEPT !.catalog = @ + 1]
    /\ Fatal("catalog")
    /\ UNCHANGED <<store, runNo, token, authRetries, syncCache, mapper, moCache, lists, i,
                   stats, statsCount, log, history>>

\* Step 3.5 (both types, one after the other) and, after the second, step 4
ProductPathReversed(toSync) ==
    LET kept == SelectSeq(toSync, LAMBDA r : r.sku # BrandSku)
    IN  [j \in 1..Len(kept) |-> kept[Len(kept) + 1 - j]]

ProductPathWithBrand(toSync) == toSync

\* lines 247-248: the partition of step 4
ProductPath(toSync) == SelectSeq(toSync, LAMBDA r : r.sku # BrandSku)
BrandPath(toSync) == SelectSeq(toSync, LAMBDA r : r.sku = BrandSku)

BuildMetaobjectCache ==
    /\ UNCHANGED faults
    /\ pc \in {"mcacheProduct", "mcacheBrand"}
    /\ LET type == IF pc = "mcacheProduct" THEN ProductType ELSE BrandType
       IN  moCache' = [moCache EXCEPT ![type] =
                          [built |-> TRUE, map |-> buildMetaobjectCache(dest[type])]]
    /\ reqs' = [reqs EXCEPT !.mcache = @ + 1]
    /\ last' = [kind |-> "mcache", outcome |-> "ok"]
    /\ IF pc = "mcacheProduct"
       THEN /\ pc' = "mcacheBrand"
            /\ UNCHANGED <<productReviews, brandReviews, i>>
       ELSE /\ productReviews' = ProductPath(reviewsToSync)
            /\ brandReviews' = BrandPath(reviewsToSync)
            /\ pc' = IF Len(productReviews') > 0 THEN "productLoop" ELSE "brandLoop"
            /\ i' = 1
    /\ UNCHANGED <<store, runNo, token, authRetries, syncCache, mapper, activeReviews,
                   reviewsToSync, stats, statsCount, log, exit, history>>

BuildMetaobjectCacheFails ==
    /\ faults < MaxFaults
    /\ faults' = faults + 1
    /\ pc \in {"mcacheProduct", "mcacheBrand"}
    /\ reqs' = [reqs EXCEPT !.mcache = @ + 1]
    /\ Fatal("metaobjects")
    /\ UNCHANGED <<store, runNo, token, authRetries, syncCache, mapper, moCache, lists, i,
                   stats, statsCount, log, history>>


\* what the shop answers to a mutation: done, validation errors, or the
\* request fails (graphqlRequest throws)
RemoteOutcomes == {"ok", "userErrors", "exception"}

\* a request that does not succeed uses up one of the faults of the behaviour
Faulty(outcome) ==
    IF outcome = "ok" THEN UNCHANGED faults
    ELSE faults < MaxFaults /\ faults' = faults + 1

\* upsertMetaobject, lines 247-278 of shopify-client.js
upsertOperation(moc, type, yotpoId) ==
    IF findMetaobjectByYotpoId(moc, type, yotpoId) # NoObject THEN "updated" ELSE "created"

UpsertMetaobject(type, yotpoId, fields, outcome) ==
    LET existing == findMetaobjectByYotpoId(moCache, type, yotpoId)
    IN  IF existing # NoObject
        THEN /\ reqs' = [reqs EXCEPT !.update = @ + 1]
             /\ IF outcome = "ok"
                THEN /\ dest' = [dest EXCEPT ![type] = updateMetaobject(@, existing.id, fields)]
                     /\ moCache' = updateMetaobjectCache(moCache, type, yotpoId,
                                       [id |-> existing.id, fields |-> fields @@ existing.fields])
                ELSE UNCHANGED <<dest, moCache>>
        ELSE /\ reqs' = [reqs EXCEPT !.create = @ + 1]
             /\ IF outcome = "ok"
                THEN /\ dest' = [dest EXCEPT ![type] = createMetaobject(@, fields)]
                     /\ moCache' = updateMetaobjectCache(moCache, type, yotpoId,
                                       [id |-> NewId(dest[type]), fields |-> fields])
                ELSE UNCHANGED <<dest, moCache>>

\* lines 300-304 (348-352): the pause after every 50th review of a path, for
\* the review at the 1-based position index; the continue of line 270 and
\* the catch of line 305 pass it by
RateLimitPause(index, outcome) ==
    outcome \in {"ok", "userErrors"} /\ index % PauseEvery = 0

\* lines 266-271: the SKU is not found
SkipCountersAsError(s) ==
    [s EXCEPT !.productReviews.skipped = @ + 1, !.skuMatches.notFound = @ + 1,
              !.productReviews.errors = @ + 1]

SkipCountersWithoutNotFound(s) == [s EXCEPT !.productReviews.skipped = @ + 1]

SkipCounters(s) ==
    [s EXCEPT !.productReviews.skipped = @ + 1, !.skuMatches.notFound = @ + 1]

\* lines 285-295 and 305-308 (333-343, 353-356): one outcome counter per review
CountOutcomeLosingExceptions(counts, operation, outcome) ==
    IF outcome = "ok" THEN [counts EXCEPT ![operation] = @ + 1]
    ELSE IF outcome = "userErrors" THEN [counts EXCEPT !.errors = @ + 1]
    ELSE counts

CountOutcome(counts, operation, outcome) ==
    IF outcome = "ok" THEN [counts EXCEPT ![operation] = @ + 1]
    ELSE [counts EXCEPT !.errors = @ + 1]

\* lines 296-297 (344-345): markSynced in the success branch only
CacheAfterUpsertAlways(cache, review, outcome, t) == markSynced(cache, review, t)

CacheAfterUpsertUnlessThrown(cache, review, outcome, t) ==
    IF outcome # "exception" THEN markSynced(cache, review, t) ELSE cache

CacheAfterUpsert(cache, review, outcome, t) ==
    IF outcome = "ok" THEN markSynced(cache, review, t) ELSE cache

LogEntry(path, review, operation, outcome) ==
    [path |-> path, rev |-> review, outcome |-> IF outcome = "ok" THEN operation ELSE outcome]

\* Step 5a, one iteration of the loop over productReviews
ProcessProductReview ==
    /\ pc = "productLoop"
    /\ LET review == productReviews[i]
           productId == getProductIdBySku(mapper, review.sku)
       IN  IF productId = NoProduct
           THEN /\ stats' = SkipCounters(stats)
                /\ log' = Append(log, [path |-> "product", rev |-> review, outcome |-> "skipped"])
                /\ last' = [kind |-> "review", outcome |-> "skipped",
                            paused |-> RateLimitPause(i, "skipped")]
                /\ UNCHANGED <<dest, moCache, syncCache, reqs, faults>>
           ELSE \E outcome \in RemoteOutcomes :
                LET fields == transformYotpoReview(review, productId, now).fields
                    operation == upsertOperation(moCache, ProductType, review.id)
                IN  /\ Faulty(outcome)
                    /\ UpsertMetaobject(ProductType, review.id, fields, outcome)
                    /\ stats' = [stats EXCEPT
                                   !.skuMatches.matched = @ + 1,
                                   !.productReviews = CountOutcome(@, operation, outcome)]
                    /\ syncCache' = CacheAfterUpsert(syncCache, review, outcome, now)
                    /\ log' = Append(log, LogEntry("product", review, operation, outcome))
                    /\ last' = [kind |-> "review", outcome |-> outcome,
                                paused |-> RateLimitPause(i, outcome)]
    /\ IF i < Len(productReviews)
       THEN /\ i' = i + 1
            /\ pc' = pc
       ELSE /\ i' = 1
            /\ pc' = IF Len(brandReviews) > 0 THEN "brandLoop" ELSE "save"
    /\ UNCHANGED <<fixed, cacheFile, statsDest, runNo, token, authRetries, mapper, lists,
                   statsCount, exit, history>>

\* Step 5b, one iteration of the loop over brandReviews
ProcessBrandReview ==
    /\ pc = "brandLoop"
    /\ LET review == brandReviews[i]
       IN  \E outcome \in RemoteOutcomes :
           LET fields == transformYotpoReview(review, NoProduct, now).fields
               operation == upsertOperation(moCache, BrandType, review.id)
           IN  /\ Faulty(outcome)
               /\ UpsertMetaobject(BrandType, review.id, fields, outcome)
               /\ stats' = [stats EXCEPT !.brandReviews = CountOutcome(@, operation, outcome)]
               /\ syncCache' = CacheAfterUpsert(syncCache, review, outcome, now)
               /\ log' = Append(log, LogEntry("brand", review, operation, outcome))
               /\ last' = [kind |-> "review", outcome |-> outcome,
                           paused |-> RateLimitPause(i, outcome)]
    /\ IF i < Len(brandReviews)
       THEN /\ i' = i + 1
            /\ pc' = pc
       ELSE /\ i' = 1
            /\ pc' = "save"
    /\ UNCHANGED <<fixed, cacheFile, statsDest, runNo, token, authRetries, mapper, lists,
                   statsCount, exit, history>>

\* lines 409-411
SaveCacheAfterStatistics ==
    /\ pc = "save"
    /\ pc' = "statsLoop"
    /\ i' = 1
    /\ last' = [kind |-> "save", outcome |-> "ok"]
    /\ UNCHANGED <<fixed, cacheFile, syncCache, dest, statsDest, runNo, token, authRetries,
                   mapper, moCache, lists, stats, statsCount, reqs, log, exit, history, faults>>

SaveCache ==
    /\ UNCHANGED faults
    /\ pc = "save"
    /\ syncCache' = updateLastSyncTime(syncCache, now)
    /\ cacheFile' = saveCache(syncCache')
    /\ pc' = "statsLoop"
    /\ i' = 1
    /\ last' = [kind |-> "save", outcome |-> "ok"]
    /\ UNCHANGED <<fixed, dest, statsDest, runNo, token, authRetries, mapper, moCache,
                   lists, stats, statsCount, reqs, log, exit, history>>

\* ------------------------------------------------------------------------
\* syncStatistics, lines 431-543
\* ------------------------------------------------------------------------
StatOutcomes == {"ok", "userErrors", "lookupException", "writeException"}

\* one statistics record: look the object up, then update or create it
StatUpsertUncounted(rec, outcome) ==
    LET existing == getStatisticsMetaobjectBySku(statsDest, rec.productSku)
        fields == transformStatisticsToMetaobject(rec)
    IN  /\ Faulty(outcome)
        /\ reqs' = [reqs EXCEPT !.statLookup = @ + 1,
                                !.statWrite = IF outcome = "lookupException" THEN @ ELSE @ + 1]
        /\ IF outcome = "ok"
           THEN IF existing # NoObject
                THEN /\ statsDest' = updateMetaobject(statsDest, existing.id, fields)
                     /\ statsCount' = [statsCount EXCEPT !.updated = @ + 1]
                ELSE /\ statsDest' = createMetaobject(statsDest, fields)
                     /\ statsCount' = [statsCount EXCEPT !.created = @ + 1]
           ELSE UNCHANGED <<statsCount, statsDest>>
        /\ last' = [kind |-> "statistics", outcome |-> outcome]

StatUpsert(rec, outcome) ==
    LET existing == getStatisticsMetaobjectBySku(statsDest, rec.productSku)
        fields == transformStatisticsToMetaobject(rec)
    IN  /\ Faulty(outcome)
        /\ reqs' = [reqs EXCEPT !.statLookup = @ + 1,
                                !.statWrite = IF outcome = "lookupException" THEN @ ELSE @ + 1]
        /\ IF outcome = "ok"
           THEN IF existing # NoObject
                THEN /\ statsDest' = updateMetaobject(statsDest, existing.id, fields)
                     /\ statsCount' = [statsCount EXCEPT !.updated = @ + 1]
                ELSE /\ statsDest' = createMetaobject(statsDest, fields)
                     /\ statsCount' = [statsCount EXCEPT !.created = @ + 1]
           ELSE /\ statsCount' = [statsCount EXCEPT !.errors = @ + 1]
                /\ UNCHANGED statsDest
        /\ last' = [kind |-> "statistics", outcome |-> outcome]

StatisticsInputSyncedOnly == reviewsToSync

\* line 420: syncStatistics(activeReviews, shopifyClient)
StatisticsInput == activeReviews

SyncStatisticsSku ==
    /\ pc = "statsLoop"
    /\ LET productStatistics == calculateReviewStatistics(StatisticsInput, now)
           productSkus == productStatistics.keys
       IN  /\ \E outcome \in StatOutcomes :
                StatUpsert(productStatistics.recs[productSkus[i]], outcome)
           /\ IF i < Len(productSkus)
              THEN /\ i' = i + 1
                   /\ pc' = pc
              ELSE /\ i' = 1
                   /\ pc' = "statsGlobal"
    /\ UNCHANGED <<fixed, cacheFile, dest, runNo, token, authRetries, syncCache, mapper, moCache,
                   lists, stats, log, exit, history>>

SyncStatisticsGlobal ==
    /\ pc = "statsGlobal"
    /\ \E outcome \in StatOutcomes :
         StatUpsert(calculateGlobalStatistics(StatisticsInput, now), outcome)
    /\ pc' = "exited"
    /\ exit' = [code |-> 0, how |-> "full"]
    /\ UNCHANGED <<fixed, cacheFile, dest, runNo, token, authRetries, syncCache, mapper, moCache,
                   lists, i, stats, log, history>>

Next ==
    \/ StartRun
    \/ Authenticate
    \/ AuthenticateFails
    \/ FetchReviews
    \/ FetchUnauthorized
    \/ FetchFails
    \/ BuildProductCache
    \/ BuildProductCacheFails
    \/ BuildMetaobjectCache
    \/ BuildMetaobjectCacheFails
    \/ ProcessProductReview
    \/ ProcessBrandReview
    \/ SaveCache
    \/ SyncStatisticsSku
    \/ SyncStatisticsGlobal

Spec == Init /\ [][Next]_vars


\* ------------------------------------------------------------------------
\* The functions of the program called on their own, on inputs drawn from
\* bounded sets: ProductMapper.getProductIdBySku on the maps that
\* buildProductCache builds from a catalog, and the two statistics
\* calculators on lists of reviews.
\* ------------------------------------------------------------------------
\* variant SKUs and lookup keys: a plain SKU, the numeric ids of the two
\* products, no SKU, the brand sentinel, and a key of no product
VariantSkus == {"A", "777", "888", "", BrandSku}
LookupKeys == {"", BrandSku, "A", "S", "777", "888", "X"}

Product(n, sku) ==
    [id |-> <<"gid:", "", "shopify", "Product", n>>, title |-> n,
     variants |-> <<[id |-> "v1", sku |-> "S"], [id |-> "v2", sku |-> sku]>>]

\* one product; two products on one page; two products on two pages, in
\* the other order
Catalogs ==
    { << <<Product("777", a)>> >> : a \in VariantSkus }
    \cup { << <<Product("777", a), Product("888", b)>> >> : a, b \in VariantSkus }
    \cup { << <<Product("888", b)>>, <<Product("777", a)>> >> : a, b \in VariantSkus }

\* reviews as the calculators read them: sku and score
Scored(sku, score) == Rev(1, sku, score, "c", "e")
ScoredKinds == {Scored("A", 5), Scored("A", 4), Scored("A", 6), Scored("A", 0),
                Scored("B", 1), Scored("", 3), Scored("constructor", 2),
                Scored(BrandSku, 3)}
ExampleScores == <<5, 5, 4, 3, 1>>
ReviewLists ==
    UNION { [1..n -> ScoredKinds] : n \in 0..MaxList }
    \cup { [k \in 1..5 |-> Scored("A", ExampleScores[k])], Missing }

Calls ==
    { [fn |-> "getProductIdBySku", args |-> <<c, k>>, local |-> NoLocals, done |-> FALSE,
       result |-> << >>] :
        c \in Catalogs, k \in LookupKeys }
    \cup { [fn |-> f, args |-> <<l>>, local |-> NoLocals, done |-> FALSE, result |-> << >>] :
             f \in {"calculateReviewStatistics", "calculateGlobalStatistics"},
             l \in ReviewLists }

InitFn ==
    /\ Idle(<< >>, NeverSynced([kind |-> "missing", doc |-> createEmptyCache]))
    /\ call \in Calls

Return(value) ==
    /\ ~call.done
    /\ call' = [call EXCEPT !.done = TRUE, !.result = value]
    /\ UNCHANGED <<feed, cacheFile, dest, statsDest, pc, runNo, token, authRetries,
                   syncCache, mapper, moCache, lists, i, stats, statsCount, reqs, log, last,
                   exit, history, faults>>

CallGetProductIdBySku ==
    /\ call.fn = "getProductIdBySku"
    /\ Return(getProductIdBySku(buildProductCache(NewProductMapper, call.args[1]),
                                 call.args[2]))

CallCalculateReviewStatistics ==
    /\ call.fn = "calculateReviewStatistics"
    /\ Return(calculateReviewStatistics(call.args[1], now))

CallCalculateGlobalStatistics ==
    /\ call.fn = "calculateGlobalStatistics"
    /\ Return(calculateGlobalStatistics(call.args[1], now))

NextFn ==
    \/ CallGetProductIdBySku
    \/ CallCalculateReviewStatistics
    \/ CallCalculateGlobalStatistics

SpecFn == InitFn /\ [][NextFn]_vars


\* ------------------------------------------------------------------------
\* Runs on long feeds: one review more than MaxBatches full batches of
\* PauseEvery reviews, all on one path, the last review of each batch either
\* like the others or one whose sku matches no product.  One run, in which
\* one request may fail.
\* ------------------------------------------------------------------------
LongFeed(kind, lastOfBatch) ==
    [p \in 1..(PauseEvery * MaxBatches + 1) |->
        Entry(IF p % PauseEvery = 0 THEN lastOfBatch ELSE kind, p)]

LongFeeds == {LongFeed("A", "A"), LongFeed("A", "X"), LongFeed("B", "B")}

InitPaced ==
    /\ \E f \in LongFeeds :
          IdleAt(f, NeverSynced([kind |-> "missing", doc |-> createEmptyCache]),
                 MaxRuns - 1, MaxFaults - 1)
    /\ call = NoCall

SpecPaced == InitPaced /\ [][Next]_vars


\* ------------------------------------------------------------------------
\* YotpoClient.fetchAllReviewsPaginated called on its own,
\* src/src/clients/yotpo-client.js lines 51-106, against a feed of a given
\* number of reviews that the API serves in pages; the answer to one page
\* may lack the reviews array.  One step per request.
\* ------------------------------------------------------------------------
\* sizes of the feed around the page size, and the page (0: none) that is
\* answered without a reviews array
FeedSizes == {0, 1, PageSize - 1, PageSize, PageSize + 1, MaxPages * PageSize}
BrokenPages == 0..(MaxPages + 1)

\* the body the API sends for page `page` of a feed of `size` reviews
PageOfFeed(size, broken, page) ==
    LET first == (page - 1) * PageSize
        count == IF size - first >= PageSize THEN PageSize
                 ELSE IF size - first > 0 THEN size - first ELSE 0
    IN  IF page = broken THEN [status |-> "ok"]
        ELSE [status |-> "ok", reviews |-> [k \in 1..count |-> Entry("A", first + k)]]

FetchLocals == [allReviews |-> << >>, page |-> 1, hasMore |-> TRUE, requested |-> << >>]

FetchCalls ==
    { [fn |-> "fetchAllReviewsPaginated", args |-> <<size, broken>>, local |-> FetchLocals,
       done |-> FALSE, result |-> << >>] : size \in FeedSizes, broken \in BrokenPages }

InitFetch ==
    /\ Idle(<< >>, NeverSynced([kind |-> "missing", doc |-> createEmptyCache]))
    /\ call \in FetchCalls

\* how a call ends: it returns a value or throws
Returned(value) == [value |-> value]
Thrown(message) == [error |-> message]

HasMoreWhileNotEmpty(reviews) == Len(reviews) > 0

\* line 97
HasMore(reviews) == Len(reviews) = PageSize

\* one iteration of the while loop whose getAllReviews is answered with a
\* page; the call returns when the loop ends
FetchPage ==
    /\ call.fn = "fetchAllReviewsPaginated"
    /\ ~call.done
    /\ LET page == call.local.page
           data == PageOfFeed(call.args[1], call.args[2], page)
           requested == Append(call.local.requested, [page |-> page, status |-> 200])
           allReviews == IF "reviews" \in DOMAIN data
                         THEN call.local.allReviews \o data.reviews
                         ELSE call.local.allReviews
           hasMore == IF "reviews" \in DOMAIN data THEN HasMore(data.reviews) ELSE FALSE
       IN  call' = [call EXCEPT
                      !.local = [allReviews |-> allReviews,
                                 page |-> IF "reviews" \in DOMAIN data THEN page + 1 ELSE page,
                                 hasMore |-> hasMore,
                                 requested |-> requested],
                      !.done = ~hasMore,
                      !.result = IF hasMore THEN @ ELSE Returned(allReviews)]
    /\ token' = 1
    /\ authRetries' = 0
    /\ reqs' = [reqs EXCEPT !.feed = @ + 1]
    /\ last' = [kind |-> "fetch", outcome |-> "ok"]
    /\ UNCHANGED <<feed, cacheFile, dest, statsDest, pc, runNo, syncCache, mapper, moCache,
                   lists, i, stats, statsCount, log, exit, history, faults>>

\* the request of an iteration is answered 401: getAllReviews calls itself
\* with the same page
FetchPageUnauthorized ==
    /\ call.fn = "fetchAllReviewsPaginated"
    /\ ~call.done
    /\ faults < MaxFaults
    /\ faults' = faults + 1
    /\ call' = [call EXCEPT !.local.requested =
                   Append(@, [page |-> call.local.page, status |-> 401])]
    /\ token' = 1
    /\ authRetries' = authRetries + 1
    /\ reqs' = [reqs EXCEPT !.feed = @ + 1]
    /\ last' = [kind |-> "fetch", outcome |-> "401"]
    /\ UNCHANGED <<feed, cacheFile, dest, statsDest, pc, runNo, syncCache, mapper, moCache,
                   lists, i, stats, statsCount, log, exit, history>>

\* the request of an iteration is answered with another error status:
\* getAllReviews throws and so does fetchAllReviewsPaginated
FetchPageFails ==
    /\ call.fn = "fetchAllReviewsPaginated"
    /\ ~call.done
    /\ faults < MaxFaults
    /\ faults' = faults + 1
    /\ call' = [call EXCEPT
                  !.local.requested = Append(@, [page |-> call.local.page, status |-> 500]),
                  !.done = TRUE,
                  !.result = Thrown("Failed to fetch reviews")]
    /\ token' = 1
    /\ reqs' = [reqs EXCEPT !.feed = @ + 1]
    /\ last' = [kind |-> "fetch", outcome |-> "error"]
    /\ UNCHANGED <<feed, cacheFile, dest, statsDest, pc, runNo, authRetries, syncCache, mapper,
                   moCache, lists, i, stats, statsCount, log, exit, history>>

NextFetch ==
    \/ FetchPage
    \/ FetchPageUnauthorized
    \/ FetchPageFails

\* the API answers every request
SpecFetch == InitFetch /\ [][NextFetch]_vars /\ WF_vars(NextFetch)


\* ------------------------------------------------------------------------
\* A ProductMapper used on its own, src/src/utils/product-mapper.js: its
\* methods called one after the other (each call awaited) on a shop whose
\* catalog is served in pages.  buildProductCache takes one step per page
\* request; the other methods take one step.
\* ------------------------------------------------------------------------
\* the catalogs of one and of two pages
MapperCatalogs ==
    { << <<Product("777", a)>> >> : a \in {"A", "888"} }
    \cup { << <<Product("888", b)>>, <<Product("777", a)>> >> : a, b \in {"A", "777", ""} }

MapperKeys == {"", BrandSku, "A", "S", "777", "888", "X"}

\* the locals of buildProductCache (the number of the page requested next
\* stands for the cursor) and the calls of buildProductCache so far
MapperLocals == [building |-> FALSE, pageCount |-> 0, builds |-> 0]

InitMapper ==
    /\ Idle(<< >>, NeverSynced([kind |-> "missing", doc |-> createEmptyCache]))
    /\ \E c \in MapperCatalogs :
          call = [fn |-> "ProductMapper", args |-> <<c>>, local |-> MapperLocals,
                  done |-> FALSE, result |-> << >>]

MapperRest == <<feed, cacheFile, dest, statsDest, pc, runNo, token, authRetries, syncCache,
                moCache, lists, i, stats, statsCount, log, exit, history>>

AlreadyFetchedNever(m) == FALSE

\* lines 23-25
AlreadyFetched(m) == m.cacheFetched

\* buildProductCache is called: it returns at once when the cache is
\* fetched, else it enters the loop and sends the request for the first page
CallBuildProductCache ==
    /\ call.fn = "ProductMapper"
    /\ ~call.local.building
    /\ call.local.builds < MaxBuilds
    /\ IF AlreadyFetched(mapper)
       THEN /\ call' = [call EXCEPT !.local.builds = @ + 1]
            /\ last' = [kind |-> "build", outcome |-> "noop"]
       ELSE /\ call' = [call EXCEPT !.local = [building |-> TRUE, pageCount |-> 1,
                                               builds |-> @.builds + 1]]
            /\ last' = [kind |-> "build", outcome |-> "started"]
    /\ UNCHANGED <<mapper, reqs, faults, MapperRest>>

\* the request for a page is answered: the products of the page are put
\* into the maps; after the last page cacheFetched is set and the call returns
BuildPageAnswered ==
    /\ call.fn = "ProductMapper"
    /\ call.local.building
    /\ LET pages == call.args[1]
           pageCount == call.local.pageCount
           hasNextPage == pageCount < Len(pages)
           indexed == IndexPage(mapper, pages[pageCount])
       IN  /\ mapper' = IF hasNextPage THEN indexed ELSE [indexed EXCEPT !.cacheFetched = TRUE]
           /\ call' = [call EXCEPT !.local.building = hasNextPage,
                                   !.local.pageCount = IF hasNextPage THEN pageCount + 1 ELSE 0]
           /\ last' = [kind |-> "build", outcome |-> IF hasNextPage THEN "page" ELSE "fetched"]
    /\ reqs' = [reqs EXCEPT !.catalog = @ + 1]
    /\ UNCHANGED <<faults, MapperRest>>

\* the request for a page fails: lines 102-105, the error is thrown on
BuildPageFails ==
    /\ call.fn = "ProductMapper"
    /\ call.local.building
    /\ faults < MaxFaults
    /\ faults' = faults + 1
    /\ call' = [call EXCEPT !.local.building = FALSE, !.local.pageCount = 0]
    /\ last' = [kind |-> "build", outcome |-> "error"]
    /\ reqs' = [reqs EXCEPT !.catalog = @ + 1]
    /\ UNCHANGED <<mapper, MapperRest>>

LookupProductId ==
    /\ call.fn = "ProductMapper"
    /\ ~call.local.building
    /\ \E k \in MapperKeys :
          last' = [kind |-> "getProductIdBySku", key |-> k,
                   outcome |-> getProductIdBySku(mapper, k)]
    /\ UNCHANGED <<call, mapper, reqs, faults, MapperRest>>

LookupProductDetails ==
    /\ call.fn = "ProductMapper"
    /\ ~call.local.building
    /\ \E k \in MapperKeys :
          last' = [kind |-> "getProductDetailsBySku", key |-> k,
                   outcome |-> getProductDetailsBySku(mapper, k)]
    /\ UNCHANGED <<call, mapper, reqs, faults, MapperRest>>

ClearCache ==
    /\ call.fn = "ProductMapper"
    /\ ~call.local.building
    /\ mapper' = clearCache(mapper)
    /\ last' = [kind |-> "clearCache", outcome |-> "ok"]
    /\ UNCHANGED <<call, reqs, faults, MapperRest>>

NextMapper ==
    \/ CallBuildProductCache
    \/ BuildPageAnswered
    \/ BuildPageFails
    \/ LookupProductId
    \/ LookupProductDetails
    \/ ClearCache

SpecMapper == InitMapper /\ [][NextMapper]_vars


\* ------------------------------------------------------------------------
\* syncReviewStatistics run as a script, src/src/sync-statistics.js lines
\* 6-149: it fetches the feed itself and syncs the statistics only.
\* ------------------------------------------------------------------------
\* a new process running the script: the clients are constructed
StartStatisticsSync ==
    /\ pc \in {"idle", "exited"}
    /\ runNo < MaxRuns
    /\ runNo' = runNo + 1
    /\ pc' = "statisticsFetch"
    /\ token' = 0
    /\ authRetries' = 0
    /\ syncCache' = createEmptyCache
    /\ mapper' = NewProductMapper
    /\ moCache' = NewMetaobjectCache
    /\ activeReviews' = << >>
    /\ reviewsToSync' = << >>
    /\ productReviews' = << >>
    /\ brandReviews' = << >>
    /\ i' = 0
    /\ stats' = ZeroStats
    /\ statsCount' = ZeroStatsCount
    /\ reqs' = ZeroReqs
    /\ log' = << >>
    /\ last' = NoEvent
    /\ exit' = Running
    /\ cacheAtStart' = cacheFile
    /\ destAtStart' = <<dest, statsDest>>
    /\ prev' = [how |-> IF pc = "idle" THEN "none" ELSE exit.how, clean |-> FALSE]
    /\ prevFailed' = {}
    /\ UNCHANGED <<store, faults>>

\* line 26: reviews = await yotpoClient.fetchAllReviewsPaginated()
StatisticsOnlyInput == feed

\* lines 19-37: the token request and the feed request are answered; the
\* per-sku statistics are calculated; without any the script returns
StatisticsFetch ==
    /\ pc = "statisticsFetch"
    /\ token' = 1
    /\ authRetries' = 0
    /\ reqs' = [reqs EXCEPT !.feed = @ + 1]
    /\ LET productStatistics == calculateReviewStatistics(StatisticsOnlyInput, now)
       IN  IF productStatistics = TypeError
           THEN /\ Fatal("statistics")
                /\ i' = i
           ELSE IF Len(productStatistics.keys) = 0
           THEN /\ pc' = "exited"
                /\ exit' = [code |-> 0, how |-> "noStatistics"]
                /\ last' = [kind |-> "return", outcome |-> "noStatistics"]
                /\ i' = i
           ELSE /\ pc' = "statisticsLoop"
                /\ last' = [kind |-> "fetch", outcome |-> "ok"]
                /\ i' = 1
                /\ exit' = exit
    /\ UNCHANGED <<store, runNo, syncCache, mapper, moCache, lists, stats, statsCount, log,
                   history, faults>>

\* the feed answers 401: getAllReviews calls itself with the same page
StatisticsFetchUnauthorized ==
    /\ pc = "statisticsFetch"
    /\ faults < MaxFaults
    /\ faults' = faults + 1
    /\ token' = 1
    /\ authRetries' = authRetries + 1
    /\ reqs' = [reqs EXCEPT !.feed = @ + 1]
    /\ last' = [kind |-> "fetch", outcome |-> "401"]
    /\ UNCHANGED <<store, pc, runNo, syncCache, mapper, moCache, lists, i, stats, statsCount,
                   log, exit, history>>

\* the token request is refused or the feed answers another error status:
\* the script's catch, process.exit(1)
StatisticsFetchFails ==
    /\ pc = "statisticsFetch"
    /\ faults < MaxFaults
    /\ faults' = faults + 1
    /\ reqs' = [reqs EXCEPT !.feed = @ + 1]
    /\ Fatal("feed")
    /\ UNCHANGED <<store, runNo, token, authRetries, syncCache, mapper, moCache, lists, i,
                   stats, statsCount, log, history>>

\* lines 45-86, one iteration
StatisticsOnlySku ==
    /\ pc = "statisticsLoop"
    /\ LET productStatistics == calculateReviewStatistics(StatisticsOnlyInput, now)
           productSkus == productStatistics.keys
       IN  /\ \E outcome \in StatOutcomes :
                StatUpsert(productStatistics.recs[productSkus[i]], outcome)
           /\ IF i < Len(productSkus)
              THEN /\ i' = i + 1
                   /\ pc' = pc
              ELSE /\ i' = 1
                   /\ pc' = "statisticsGlobal"
    /\ UNCHANGED <<fixed, cacheFile, dest, runNo, token, authRetries, syncCache, mapper, moCache,
                   lists, stats, log, exit, history>>

\* lines 88-134
StatisticsOnlyGlobal ==
    /\ pc = "statisticsGlobal"
    /\ \E outcome \in StatOutcomes :
         StatUpsert(calculateGlobalStatistics(StatisticsOnlyInput, now), outcome)
    /\ pc' = "exited"
    /\ exit' = [code |-> 0, how |-> "statistics"]
    /\ UNCHANGED <<fixed, cacheFile, dest, runNo, token, authRetries, syncCache, mapper, moCache,
                   lists, i, stats, log, history>>

\* ------------------------------------------------------------------------
\* A shop on which both scripts are run, in any order: short feeds, and
\* besides the stores of Init a store left by an earlier run that synced a
\* review which has left the feed since.
\* ------------------------------------------------------------------------
Departed == Rev(9, "A", 4, "c", "e")

ShopFeeds == { f \in Feeds : Len(f) <= MaxShopFeed }

ShopStores(f) == InitialStores(f) \cup {EarlierRun(Departed)}

InitShop ==
    /\ \E f \in ShopFeeds : \E s \in ShopStores(f) : Idle(f, s)
    /\ call = NoCall

NextShop ==
    \/ StartRun
    \/ Authenticate
    \/ AuthenticateFails
    \/ FetchReviews
    \/ FetchUnauthorized
    \/ FetchFails
    \/ BuildProductCache
    \/ BuildProductCacheFails
    \/ BuildMetaobjectCache
    \/ BuildMetaobjectCacheFails
    \/ ProcessProductReview
    \/ ProcessBrandReview
    \/ SaveCache
    \/ SyncStatisticsSku
    \/ SyncStatisticsGlobal
    \/ StartStatisticsSync
    \/ StatisticsFetch
    \/ StatisticsFetchUnauthorized
    \/ StatisticsFetchFails
    \/ StatisticsOnlySku
    \/ StatisticsOnlyGlobal

SpecShop == InitShop /\ [][NextShop]_vars


\* ------------------------------------------------------------------------
\* Repeated runs of syncReviews on a feed and a catalog that do not change
\* (every id once in the feed), in which all but one request succeed and
\* every started step gets its answer.
\* ------------------------------------------------------------------------
SteadyFeeds ==
    { f \in ShopFeeds : \A j, k \in DOMAIN f : f[j].id = f[k].id => j = k }

InitSteady ==
    /\ \E f \in SteadyFeeds : \E s \in InitialStores(f) : IdleAt(f, s, 0, MaxFaults - 1)
    /\ call = NoCall

SpecSteady == InitSteady /\ [][Next]_vars /\ WF_vars(Next)


\* ------------------------------------------------------------------------
\* The paged scans of ShopifyClient called on their own,
\* src/src/clients/shopify-client.js: getStatisticsMetaobjectBySku (lines
\* 302-356) and the scan of findMetaobjectByYotpoId when no cache of the
\* type was built (lines 190-238), against a destination that holds a given
\* number of objects of the type, at most one of them with the key looked
\* for.  An object is named by its position in the order in which the shop
\* lists the type; position 0 is no object (null).  One step per request.
\* ------------------------------------------------------------------------
StatPageSize == 250
MaxScans == 3       \* requests of one scan

ScanFns == {"getStatisticsMetaobjectBySku", "findMetaobjectByYotpoId"}

\* numbers of objects around the page size, and the places of the object
\* with the key (0: no object has it)
ScanSizes == {0, 1, StatPageSize, StatPageSize + 1, 2 * StatPageSize, 2 * StatPageSize + 1}
ScanPlaces(size) ==
    {0} \cup { p \in {1, StatPageSize, StatPageSize + 1, size} : p >= 1 /\ p <= size }

\* The cursor the shop applies to a request.  The query text of both scans
\* declares $type and $first and selects metaobjects(type: $type, first:
\* $first): the "after" member of the variables is no variable of the
\* operation, and the shop answers as for a query without cursor.
CursorOfQuery(variables) == 0

\* data.metaobjects for a cursor: the positions of the edges and pageInfo
\* (endCursor 0 is null)
MetaobjectsPage(size, after) ==
    LET end == IF size - after >= StatPageSize THEN after + StatPageSize
               ELSE IF size > after THEN size ELSE after
    IN  [first |-> after + 1, last |-> end, hasNextPage |-> end < size,
         endCursor |-> IF end > after THEN end ELSE 0]

\* a call: hasNextPage, cursor and the requests sent so far
ScanCalls ==
    { [fn |-> fn, args |-> <<size, at>>,
       local |-> [hasNextPage |-> TRUE, cursor |-> 0, requested |-> << >>],
       done |-> FALSE, result |-> << >>] :
        fn \in ScanFns, size \in ScanSizes, at \in UNION { ScanPlaces(n) : n \in ScanSizes } }

InitScan ==
    /\ Idle(<< >>, NeverSynced([kind |-> "missing", doc |-> createEmptyCache]))
    /\ call \in { c \in ScanCalls : c.args[2] \in ScanPlaces(c.args[1]) }

\* the request counter of a scan: the statistics lookup, or a metaobjects
\* query of a review type
ScanRequest(fn) ==
    IF fn = "getStatisticsMetaobjectBySku"
    THEN [reqs EXCEPT !.statLookup = @ + 1]
    ELSE [reqs EXCEPT !.mcache = @ + 1]

\* one iteration of the while loop whose request is answered
ScanPage ==
    /\ call.fn \in ScanFns
    /\ ~call.done
    /\ call.local.hasNextPage
    /\ Len(call.local.requested) < MaxScans
    /\ LET size == call.args[1]
           at == call.args[2]
           variables == [first |-> StatPageSize, after |-> call.local.cursor]
           data == MetaobjectsPage(size, CursorOfQuery(variables))
           match == at >= data.first /\ at <= data.last
           requested == Append(call.local.requested,
                               [after |-> variables.after, first |-> data.first,
                                last |-> data.last])
       IN  call' = IF match
                   THEN [call EXCEPT !.local.requested = requested,
                                     !.done = TRUE,
                                     !.result = Returned(at)]
                   ELSE [call EXCEPT !.local = [hasNextPage |-> data.hasNextPage,
                                                cursor |-> data.endCursor,
                                                requested |-> requested],
                                     !.done = ~data.hasNextPage,
                                     !.result = IF data.hasNextPage THEN @ ELSE Returned(0)]
    /\ reqs' = ScanRequest(call.fn)
    /\ last' = [kind |-> "scan", outcome |-> "ok"]
    /\ UNCHANGED <<feed, cacheFile, dest, statsDest, pc, runNo, token, authRetries, syncCache,
                   mapper, moCache, lists, i, stats, statsCount, log, exit, history, faults>>

\* the request of an iteration fails: graphqlRequest throws and so does the scan
ScanPageFails ==
    /\ call.fn \in ScanFns
    /\ ~call.done
    /\ call.local.hasNextPage
    /\ Len(call.local.requested) < MaxScans
    /\ faults < MaxFaults
    /\ faults' = faults + 1
    /\ call' = [call EXCEPT !.done = TRUE, !.result = Thrown("Shopify API request failed")]
    /\ reqs' = ScanRequest(call.fn)
    /\ last' = [kind |-> "scan", outcome |-> "error"]
    /\ UNCHANGED <<feed, cacheFile, dest, statsDest, pc, runNo, token, authRetries, syncCache,
                   mapper, moCache, lists, i, stats, statsCount, log, exit, history>>

NextScan ==
    \/ ScanPage
    \/ ScanPageFails

\* the shop answers every request
SpecScan == InitScan /\ [][NextScan]_vars /\ WF_vars(NextScan)


\* ------------------------------------------------------------------------
\* syncReviews on a shop in which an earlier run synced the first review of
\* the feed, which the feed now lists as deleted, archived or both.
\* ------------------------------------------------------------------------
RetiredVersions(r) ==
    {[r EXCEPT !.deleted = TRUE], [r EXCEPT !.archived = TRUE],
     [r EXCEPT !.deleted = TRUE, !.archived = TRUE]}

RetiredFeeds ==
    UNION { { [f EXCEPT ![1] = v] : v \in RetiredVersions(f[1]) } :
            f \in { g \in ShopFeeds : /\ Len(g) > 0
                                      /\ shouldSyncReview(g[1])
                                      /\ (g[1].sku = BrandSku \/ Resolvable(g[1].sku)) } }

\* the version of a retired review that the earlier run synced
BeforeRetired(r) == [r EXCEPT !.deleted = FALSE, !.archived = FALSE]

InitRetired ==
    /\ \E f \in RetiredFeeds : Idle(f, EarlierRun(BeforeRetired(f[1])))
    /\ call = NoCall

SpecRetired == InitRetired /\ [][Next]_vars


\* ------------------------------------------------------------------------
\* Properties
\* ------------------------------------------------------------------------
\* reviews beyond those of the feed: their earlier versions, and versions
\* that differ in a field outside the fingerprint
OutsideVariants(r) ==
    {r, [r EXCEPT !.email = "e0"], [r EXCEPT !.sentiment = 0],
     [r EXCEPT !.email = "e0", !.sentiment = 0]}

ReviewUniverse ==
    UNION { OutsideVariants(r) \cup OutsideVariants(OlderContent(r)) : r \in Range(feed) }

\* the nine fields of the fingerprint
DisplayFingerprint(r) ==
    <<r.score, r.title, r.content, r.name, r.votes_up, r.votes_down, r.deleted, r.archived,
      r.updated_at>>

\* C1: for every review R and every cache document that has a reviews map,
\* needsSync(R) is true iff the string of R's id has no entry in cache.reviews
\* or the stored fingerprint differs from the fingerprint of R's score,
\* title, content, name, votes_up, votes_down, deleted, archived and
\* updated_at; a change of email or sentiment alone never changes the result.
C1_NeedsSyncIffNewOrChanged ==
    syncCache.hasReviews =>
        \A r \in ReviewUniverse :
            /\ needsSync(syncCache, r) <=>
                  \/ ToString(r.id) \notin DOMAIN syncCache.reviews
                  \/ syncCache.reviews[ToString(r.id)].hash # DisplayFingerprint(r)
            /\ \A r2 \in OutsideVariants(r) :
                  needsSync(syncCache, r2) <=> needsSync(syncCache, r)

\* a run found a review unchanged whose cache entry was written for a version
\* with another email and sentiment, while an edit of its content would need sync
C1_Witness ==
    /\ exit.how = "upToDate"
    /\ \E r \in Range(activeReviews) :
        /\ ToString(r.id) \in DOMAIN syncCache.reviews
        /\ ToString(r.id) \in DOMAIN cacheAtStart.doc.reviews
        /\ cacheAtStart.doc.reviews[ToString(r.id)].lastSynced < now
        /\ ~needsSync(syncCache, r)
        /\ ~needsSync(syncCache, OlderSameFingerprint(r))
        /\ needsSync(syncCache, OlderContent(r))

\* entries of the current run's log
LogIndexes(path, outcomes) ==
    { j \in DOMAIN log : log[j].path = path /\ log[j].outcome \in outcomes }

YotpoIds(objects) == { o.fields.yotpo_id : o \in objects }

\* C2: in each review object type the destination holds at most one object
\* per yotpo_id, after any steps of any runs; an upsert updates when an object
\* with the yotpo_id exists (from before the run or created earlier in it)
\* and creates only otherwise.
C2_OneObjectPerYotpoId ==
    /\ \A t \in ReviewTypes : \A o1, o2 \in dest[t] :
          o1.fields.yotpo_id = o2.fields.yotpo_id => o1 = o2
    /\ \A j \in DOMAIN log :
          LET key == ToString(log[j].rev.id)
              existed == \/ key \in YotpoIds(destAtStart[1][TypeOf(log[j].rev)])
                         \/ \E m \in 1..(j - 1) : /\ log[m].outcome = "created"
                                                  /\ log[m].path = log[j].path
                                                  /\ log[m].rev.id = log[j].rev.id
          IN  /\ log[j].outcome = "created" => ~existed
              /\ log[j].outcome = "updated" => existed

\* a review was created and, later in the same run, upserted again and updated
C2_Witness ==
    \E j, m \in DOMAIN log :
        /\ j < m
        /\ log[j].outcome = "created"
        /\ log[m].outcome = "updated"
        /\ log[j].rev.id = log[m].rev.id
        /\ log[j].path = log[m].path
        /\ Cardinality(dest[TypeOf(log[j].rev)]) = 1

\* the last successful upsert of review id k in the log
LastSuccess(k) ==
    LET js == { j \in DOMAIN log : log[j].rev.id = k /\ log[j].outcome \in Succeeded }
    IN  CHOOSE j \in js : \A m \in js : m <= j

PathCounts(path) == IF path = "product" THEN stats.productReviews ELSE stats.brandReviews

\* C3: in a run, each review whose upsert succeeds is counted as created or
\* updated and is marked synced in the cache (and in the saved file), whatever
\* happens to the other reviews, and the error counter of a path is the
\* number of its reviews whose upsert returned userErrors or threw.
C3_PartialFailureIsolation ==
    /\ \A path \in {"product", "brand"} :
          /\ PathCounts(path).errors = Cardinality(LogIndexes(path, Failed))
          /\ PathCounts(path).created = Cardinality(LogIndexes(path, {"created"}))
          /\ PathCounts(path).updated = Cardinality(LogIndexes(path, {"updated"}))
    /\ \A j \in DOMAIN log :
          log[j].outcome \in Succeeded =>
             LET key == ToString(log[j].rev.id)
                 entry == [hash |-> DisplayFingerprint(log[LastSuccess(log[j].rev.id)].rev),
                           lastSynced |-> now]
             IN  /\ key \in DOMAIN syncCache.reviews
                 /\ syncCache.reviews[key] = entry
                 /\ exit.how = "full" =>
                       /\ key \in DOMAIN cacheFile.doc.reviews
                       /\ cacheFile.doc.reviews[key] = entry

\* review 2 of 3 of a path failed, reviews 1 and 3 were synced, the run completed
C3_Witness ==
    /\ exit.how = "full"
    /\ Len(log) = 3
    /\ log[1].path = log[2].path /\ log[2].path = log[3].path
    /\ log[1].outcome \in Succeeded
    /\ log[2].outcome \in Failed
    /\ log[3].outcome \in Succeeded
    /\ PathCounts(log[1].path).errors = 1
    /\ log[1].rev.id # log[3].rev.id


\* creates and updates of destination objects done in the current run
WritesDone ==
    stats.productReviews.created + stats.productReviews.updated
    + stats.brandReviews.created + stats.brandReviews.updated
    + statsCount.created + statsCount.updated

DestinationRequests ==
    reqs.catalog + reqs.mcache + reqs.create + reqs.update + reqs.statLookup + reqs.statWrite

\* no two active reviews of the feed carry the same id
DistinctActiveIds ==
    \A j, m \in DOMAIN feed :
        (j # m /\ shouldSyncReview(feed[j]) /\ shouldSyncReview(feed[m])) => feed[j].id # feed[m].id

EntryOf(cache, k) ==
    IF ToString(k) \in DOMAIN cache.reviews THEN <<cache.reviews[ToString(k)]>> ELSE << >>

PastDiff ==
    \/ pc \in {"products", "mcacheProduct", "mcacheBrand", "productLoop", "brandLoop", "save",
               "statsLoop", "statsGlobal"}
    \/ exit.how = "full"

PastLoops == pc \in {"save", "statsLoop", "statsGlobal"} \/ exit.how = "full"

\* C5: a review whose upsert failed in a run (and that no other upsert of the
\* run wrote) keeps the cache entry it had, or none; in the next run it is in
\* the needs-sync set again and its upsert is attempted again.
C5_FailedReviewIsRetried ==
    /\ \A r \in FailedOnly(log) :
          /\ EntryOf(syncCache, r.id) = EntryOf(loadCache(cacheAtStart), r.id)
          /\ needsSync(syncCache, r)
    /\ \A r \in prevFailed :
          /\ exit.how \notin {"upToDate", "noActive"}
          /\ PastDiff => r \in Range(reviewsToSync)
          /\ PastLoops => \E j \in DOMAIN log : log[j].rev = r /\ log[j].outcome # "skipped"

\* a review with a cache entry from an earlier sync failed in the previous run
\* and was upserted again in this one
C5_Witness ==
    /\ exit.how = "full"
    /\ \E r \in prevFailed :
          /\ EntryOf(loadCache(cacheAtStart), r.id) # << >>
          /\ \E j \in DOMAIN log : log[j].rev = r /\ log[j].outcome = "updated"

ChangedKeys ==
    { k \in (DOMAIN syncCache.reviews) \cup (DOMAIN syncCache'.reviews) :
        \/ k \notin DOMAIN syncCache.reviews
        \/ k \notin DOMAIN syncCache'.reviews
        \/ syncCache'.reviews[k] # syncCache.reviews[k] }

\* C6: during a run a cache entry changes only in the step in which the
\* upsert of the review with that id returned without exception and without
\* userErrors; a skipped review, userErrors and an exception leave every
\* entry as it was.
C6_MarkSyncedOnlyOnSuccess ==
    [][ (pc \notin {"idle", "exited"}) =>
          /\ ChangedKeys # {} =>
                /\ pc \in {"productLoop", "brandLoop"}
                /\ last'.outcome = "ok"
                /\ log' # log
                /\ log'[Len(log')].outcome \in Succeeded
                /\ ChangedKeys = {ToString(log'[Len(log')].rev.id)}
                /\ reqs'.create + reqs'.update = reqs.create + reqs.update + 1
          /\ (log' # log /\ log'[Len(log')].outcome \notin Succeeded) => ChangedKeys = {}
      ]_vars

\* a run in which one review was skipped, one failed and one was synced
C6_Witness ==
    /\ PastLoops
    /\ \E j, m, n \in DOMAIN log :
          /\ log[j].outcome = "skipped"
          /\ log[m].outcome \in Failed
          /\ log[n].outcome \in Succeeded
          /\ EntryOf(syncCache, log[j].rev.id) = << >>
          /\ EntryOf(syncCache, log[m].rev.id) = << >>
          /\ EntryOf(syncCache, log[n].rev.id) # << >>

\* C7: when some review is active and no active review needs sync, the run
\* sets lastSync, saves the cache and ends with exit code 0 after the feed
\* request alone: no catalog fetch, no metaobject cache build, no upsert, no
\* statistics lookup or write.
C7_UpToDateTouchesNothing ==
    LET loaded == loadCache(cacheAtStart)
    IN  (/\ Len(activeReviews) > 0
         /\ loaded.hasReviews
         /\ \A k \in DOMAIN activeReviews : ~needsSync(loaded, activeReviews[k])) =>
            /\ pc = "exited"
            /\ exit = [code |-> 0, how |-> "upToDate"]
            /\ DestinationRequests = 0
            /\ <<dest, statsDest>> = destAtStart
            /\ cacheFile = [kind |-> "json", doc |-> [loaded EXCEPT !.lastSync = now]]

C7_Witness ==
    /\ exit.how = "upToDate"
    /\ Len(activeReviews) > 0
    /\ reqs.feed > 0
    /\ cacheFile.doc.lastSync = now
    /\ cacheAtStart.doc.lastSync < now


\* C8 as stated: once the feed fetch, the authentication, the catalog cache
\* build or the metaobject cache build has failed, the run has ended with a
\* non-zero exit code, with no upsert and no statistics write done and the
\* cache file as it was at the start.  A reviews request refused with 401 a
\* second time in a row (after the one re-authentication) is a failed fetch.
C8_FatalErrorAborts ==
    /\ last.kind = "fatal" =>
          /\ pc = "exited"
          /\ exit.code = 1
          /\ cacheFile = cacheAtStart
          /\ <<dest, statsDest>> = destAtStart
          /\ reqs.create + reqs.update + reqs.statLookup + reqs.statWrite = 0
          /\ WritesDone = 0
    /\ (last = [kind |-> "fetch", outcome |-> "401"] /\ authRetries >= 2) =>
          /\ pc = "exited"
          /\ exit.code = 1

\* C9: the step that handles a product-path review whose sku matches no
\* product sends no write, adds 1 to productReviews.skipped and to
\* skuMatches.notFound, leaves the error counters and the cache as they were,
\* and goes on to the next review (or the next phase) with the run still alive.
C9_UnresolvedReviewSkipped ==
    [][ (pc = "productLoop" /\ ~Resolvable(productReviews[i].sku)) =>
          /\ UNCHANGED <<dest, statsDest, reqs, syncCache, cacheFile, moCache>>
          /\ stats'.productReviews = [stats.productReviews EXCEPT !.skipped = @ + 1]
          /\ stats'.skuMatches = [stats.skuMatches EXCEPT !.notFound = @ + 1]
          /\ stats'.brandReviews = stats.brandReviews
          /\ needsSync(syncCache', productReviews[i])
          /\ exit' = Running
          /\ IF i < Len(productReviews)
             THEN pc' = "productLoop" /\ i' = i + 1
             ELSE pc' = (IF Len(brandReviews) > 0 THEN "brandLoop" ELSE "save")
      ]_vars

\* an unresolved review was skipped and the loop then handled a later review
C9_Witness ==
    /\ \E j, m \in DOMAIN log :
          /\ j < m
          /\ log[j].outcome = "skipped"
          /\ ~Resolvable(log[j].rev.sku)
          /\ log[m].outcome \in Succeeded
    /\ stats.productReviews.skipped = 1
    /\ stats.skuMatches.notFound = 1
    /\ stats.productReviews.errors = 0

BrandOnes(reviews) == SelectSeq(reviews, LAMBDA r : r.sku = BrandSku)

\* C10 as stated: a review with sku "yotpo_site_reviews" gets no
\* product_reference field, is counted under no key of the per-sku
\* statistics (so no per-sku statistics object is written for it), and is
\* counted in the global statistics.
C10_BrandSentinelExclusion ==
    LET perSku == calculateReviewStatistics(activeReviews, now)
        global == calculateGlobalStatistics(activeReviews, now)
        others == SelectSeq(activeReviews, LAMBDA r : r.sku # BrandSku)
    IN  /\ \A k \in DOMAIN activeReviews :
              activeReviews[k].sku = BrandSku =>
                 \A productId \in {NoProduct, ProductGid} :
                    "product_reference" \notin
                        DOMAIN transformYotpoReview(activeReviews[k], productId, now).fields
        /\ \A o \in dest[BrandType] : "product_reference" \notin DOMAIN o.fields
        /\ Len(activeReviews) > 0 =>
              /\ global.totalReviews = Len(others) + Len(BrandOnes(activeReviews))
              /\ BrandSku \notin Range(perSku.keys)
              /\ \A k \in Range(perSku.keys) :
                    perSku.recs[k].totalReviews
                        = Len(SelectSeq(others, LAMBDA r : SkuOrUnknown(r) = k))
        /\ Len(activeReviews) > 0 =>
              \A o \in statsDest :
                 ~(o.fields.product_sku = BrandSku /\ o.fields.last_updated = now)

\* a review that is not deleted, not archived and has id, score, title,
\* content and sku
Syncable(r) ==
    /\ ~r.deleted /\ ~r.archived
    /\ r.id # 0 /\ r.score # 0 /\ r.title # "" /\ r.content # "" /\ r.sku # ""

\* the review r with the fields named in blank emptied or the flags set
Damaged(r, blank) ==
    [r EXCEPT !.id = IF "id" \in blank THEN 0 ELSE @,
              !.score = IF "score" \in blank THEN 0 ELSE @,
              !.title = IF "title" \in blank THEN "" ELSE @,
              !.content = IF "content" \in blank THEN "" ELSE @,
              !.sku = IF "sku" \in blank THEN "" ELSE @,
              !.deleted = ("deleted" \in blank),
              !.archived = ("archived" \in blank)]

Damages == SUBSET {"id", "score", "title", "content", "sku", "deleted", "archived"}

\* the reviews the run has handed to the cache diff, the partition, the
\* loops or the statistics
Handled ==
    Range(activeReviews) \cup Range(reviewsToSync) \cup Range(productReviews)
    \cup Range(brandReviews) \cup { log[j].rev : j \in DOMAIN log }

\* C11: the filter of step 2 keeps exactly the reviews that are not deleted,
\* not archived and have id, score, title, content and sku (a missing title
\* alone excludes); only kept reviews reach the cache diff, the loops, the
\* destination and the statistics, and the excluded ones are counted in
\* stats.filtered and in no other counter.
C11_OnlySyncableReviewsAreHandled ==
    /\ runNo = 0 =>
          \A r \in Range(feed) : \A blank \in Damages :
             shouldSyncReview(Damaged(r, blank)) <=> Syncable(Damaged(r, blank))
    /\ \A r \in Handled : Syncable(r) /\ r \in Range(feed)
    /\ \A k \in DOMAIN syncCache.reviews :
          k \in DOMAIN loadCache(cacheAtStart).reviews
          \/ \E r \in Range(feed) : Syncable(r) /\ ToString(r.id) = k
    /\ \A t \in ReviewTypes : \A o \in dest[t] :
          o \in destAtStart[1][t]
          \/ \E r \in Range(feed) : Syncable(r) /\ ToString(r.id) = o.fields.yotpo_id
    /\ (/\ pc \notin {"idle", "auth", "fetch"}
        /\ ~(last.kind = "fatal" /\ last.outcome \in {"authentication", "feed"})) =>
          /\ stats.total = Len(feed)
          /\ stats.filtered = Len(feed) - Len(SelectSeq(feed, Syncable))
          /\ activeReviews = SelectSeq(feed, Syncable)
          /\ exit.how \notin {"noActive", "fatal"} =>
                stats.cached + Len(reviewsToSync) = Len(activeReviews)
    /\ stats.productReviews.errors + stats.brandReviews.errors
          = Cardinality(LogIndexes("product", Failed)) + Cardinality(LogIndexes("brand", Failed))
    /\ stats.productReviews.skipped + stats.brandReviews.skipped
          = Cardinality(LogIndexes("product", {"skipped"}))
    /\ \A o \in statsDest :
          (pc # "idle" /\ o.fields.last_updated = now) =>
              o.fields.total_reviews
                  = ToString(Len(SelectSeq(feed, LAMBDA r :
                        Syncable(r) /\ (o.fields.product_sku = GlobalSku
                                        \/ SkuOrUnknown(r) = o.fields.product_sku))))

\* a full run on a feed holding a deleted review and an undeleted,
\* unarchived review without title next to a syncable one
C11_Witness ==
    /\ exit.how = "full"
    /\ stats.filtered = 2
    /\ \E r \in Range(feed) : r.title = "" /\ ~r.deleted /\ ~r.archived
    /\ \E r \in Range(feed) : r.deleted
    /\ Len(activeReviews) = 1
    /\ Len(log) = 1

\* the products of a catalog
ProductsOf(catalog) == UNION { Range(catalog[p]) : p \in DOMAIN catalog }

ProductsWithSku(catalog, key) ==
    { q \in ProductsOf(catalog) : \E v \in DOMAIN q.variants : q.variants[v].sku = key }

\* C12: getProductIdBySku returns null for the brand sentinel and for an
\* empty key, whatever the maps hold; for any other key it returns the
\* product of the SKU-map entry when the SKU map has the key (also when the
\* numeric-id map has it too), the product of the numeric-id-map entry only
\* when the SKU map has no entry for the key, and null when neither has one.
C12_SkuMapWins ==
    (call.fn = "getProductIdBySku" /\ call.done) =>
        LET catalog == call.args[1]
            key == call.args[2]
            m == buildProductCache(NewProductMapper, catalog)
            inSku == MapHas(m.skuToProductCache, key)
            inId == MapHas(m.idToProductCache, key)
        IN  /\ inSku <=> (key # "" /\ ProductsWithSku(catalog, key) # {})
            /\ inId <=> \E q \in ProductsOf(catalog) : extractNumericId(q.id) = key
            /\ IF key = "" \/ key = BrandSku THEN call.result = NoProduct
               ELSE IF inSku
                    THEN /\ call.result = m.skuToProductCache[key].productId
                         /\ call.result \in { q.id : q \in ProductsWithSku(catalog, key) }
               ELSE IF inId
                    THEN /\ call.result = m.idToProductCache[key].productId
                         /\ extractNumericId(call.result) = key
               ELSE call.result = NoProduct

\* a key that is a variant SKU of one product and the numeric id of another
C12_Witness ==
    /\ call.fn = "getProductIdBySku" /\ call.done
    /\ LET m == buildProductCache(NewProductMapper, call.args[1])
           key == call.args[2]
       IN  /\ MapHas(m.skuToProductCache, key)
           /\ MapHas(m.idToProductCache, key)
           /\ m.skuToProductCache[key].productId # m.idToProductCache[key].productId
           /\ call.result = m.skuToProductCache[key].productId
           /\ MapHas(m.skuToProductCache, BrandSku)

FoldedSku(r) == IF r.sku = "" THEN "unknown" ELSE r.sku

\* the positions of a list whose review has key k, and those among them
\* with a score in a set
WithKey(l, k) == { j \in DOMAIN l : FoldedSku(l[j]) = k }
WithKeyAndScore(l, k, scores) == { j \in WithKey(l, k) : l[j].score \in scores }

RECURSIVE ScoreSum(_, _)
ScoreSum(l, positions) ==
    IF positions = {} THEN 0
    ELSE LET j == CHOOSE x \in positions : TRUE
         IN  l[j].score + ScoreSum(l, positions \ {j})

\* h hundredths is sum / count rounded to two decimals
IsRounded(h, sum, count) == 2 * h * count <= 200 * sum + count /\ 200 * sum + count < 2 * (h + 1) * count

\* C13: calculateReviewStatistics returns one record per distinct sku (a
\* falsy sku counted under "unknown"), with totalReviews the number of reviews
\* of that sku, each star count the number of them with exactly that score,
\* scores outside 1..5 counted in totalReviews only, and averageRating the
\* sum of the scores over their number, rounded to two decimals; scores
\* 5,5,4,3,1 for sku "A" give 5 reviews, 3.60 and counts 2/1/1/0/1.
C13_PerSkuStatistics ==
    (call.fn = "calculateReviewStatistics" /\ call.done) =>
        LET l == IF call.args[1] = Missing THEN << >> ELSE call.args[1]
            res == call.result
        IN  /\ res # TypeError
            /\ Range(res.keys) = { FoldedSku(l[j]) : j \in DOMAIN l }
            /\ DOMAIN res.recs = Range(res.keys)
            /\ Len(res.keys) = Cardinality(Range(res.keys))
            /\ \A k \in Range(res.keys) :
                  LET rec == res.recs[k]
                  IN  /\ rec.productSku = k
                      /\ rec.totalReviews = Cardinality(WithKey(l, k))
                      /\ rec.fiveStarCount = Cardinality(WithKeyAndScore(l, k, {5}))
                      /\ rec.fourStarCount = Cardinality(WithKeyAndScore(l, k, {4}))
                      /\ rec.threeStarCount = Cardinality(WithKeyAndScore(l, k, {3}))
                      /\ rec.twoStarCount = Cardinality(WithKeyAndScore(l, k, {2}))
                      /\ rec.oneStarCount = Cardinality(WithKeyAndScore(l, k, {1}))
                      /\ rec.fiveStarCount + rec.fourStarCount + rec.threeStarCount
                            + rec.twoStarCount + rec.oneStarCount
                         = rec.totalReviews
                           - Cardinality({ j \in WithKey(l, k) : l[j].score \notin 1..5 })
                      /\ IsRounded(rec.averageRating, ScoreSum(l, WithKey(l, k)),
                                   rec.totalReviews)
            /\ [j \in DOMAIN l |-> l[j].score] = ExampleScores =>
                  /\ res.keys = <<"A">>
                  /\ res.recs["A"].totalReviews = 5
                  /\ res.recs["A"].averageRating = 360
                  /\ <<res.recs["A"].fiveStarCount, res.recs["A"].fourStarCount,
                       res.recs["A"].threeStarCount, res.recs["A"].twoStarCount,
                       res.recs["A"].oneStarCount>> = <<2, 1, 1, 0, 1>>

\* the list of the example; the lists with a score outside 1..5 and with a
\* review without sku are among the calls as well
C13_Witness ==
    /\ call.fn = "calculateReviewStatistics" /\ call.done
    /\ call.args[1] # Missing
    /\ [j \in DOMAIN call.args[1] |-> call.args[1][j].score] = ExampleScores
    /\ call.result.recs["A"].averageRating = 360

EmptyGlobal ==
    [productSku |-> "_global_all_reviews", averageRating |-> 0, totalReviews |-> 0,
     fiveStarCount |-> 0, fourStarCount |-> 0, threeStarCount |-> 0, twoStarCount |-> 0,
     oneStarCount |-> 0, lastUpdated |-> now]

\* C14: calculateGlobalStatistics on an empty list of reviews, or with the
\* argument left out, returns the record of "_global_all_reviews" with
\* totalReviews 0, averageRating 0 and five zero star counts; it does not
\* throw.
C14_GlobalStatisticsOfNoReviews ==
    (call.fn = "calculateGlobalStatistics" /\ call.done) =>
        /\ (call.args[1] = Missing \/ call.args[1] = << >>) => call.result = EmptyGlobal
        /\ (call.args[1] # Missing /\ call.args[1] # << >>) =>
              call.result.totalReviews = Len(call.args[1])

\* the call with the argument left out has returned
C14_Witness ==
    /\ call.fn = "calculateGlobalStatistics" /\ call.done
    /\ call.args[1] = Missing
    /\ call.result.totalReviews = 0

\* the statistics objects written in the current run
WrittenStatistics == { o \in statsDest : runNo >= 1 /\ o.fields.last_updated = now }

StarCountsOf(l, members) ==
    [n \in 1..5 |-> ToString(Cardinality({ j \in members : l[j].score = n }))]

\* C15: every statistics object a run writes is computed over all active
\* reviews of the run (the output of step 2): the reviews that were unchanged,
\* skipped as unresolved or failed their upsert are counted like the synced
\* ones.
C15_StatisticsOverAllActiveReviews ==
    \A o \in WrittenStatistics :
        LET k == o.fields.product_sku
            members == IF k = GlobalSku THEN DOMAIN activeReviews
                       ELSE WithKey(activeReviews, k)
        IN  /\ activeReviews = SelectSeq(feed, Syncable)
            /\ members # {}
            /\ o.fields.total_reviews = ToString(Cardinality(members))
            /\ <<o.fields.one_star_count, o.fields.two_star_count, o.fields.three_star_count,
                 o.fields.four_star_count, o.fields.five_star_count>>
                  = StarCountsOf(activeReviews, members)
            /\ \E h \in 0..500 :
                  /\ o.fields.average_rating = ToString(h)
                  /\ IsRounded(h, ScoreSum(activeReviews, members), Cardinality(members))

\* a full run in which one review was unchanged, one skipped as unresolved
\* and one failed its upsert, and the global statistics written count all three
C15_Witness ==
    /\ exit.how = "full"
    /\ stats.cached = 1
    /\ stats.productReviews.skipped = 1
    /\ stats.productReviews.errors + stats.brandReviews.errors = 1
    /\ \E o \in WrittenStatistics :
          o.fields.product_sku = GlobalSku /\ o.fields.total_reviews = "3"

\* the distinct skus of the active reviews, and the global record
StatisticsDue == { FoldedSku(activeReviews[j]) : j \in DOMAIN activeReviews } \cup {GlobalSku}

C17_StatisticsFailureIsContained ==
    [][ (pc \in {"statsLoop", "statsGlobal"}) =>
          /\ UNCHANGED <<cacheFile, syncCache, dest, stats, log>>
          /\ last'.kind = "statistics"
          /\ last'.outcome # "ok" =>
                /\ statsCount' = [statsCount EXCEPT !.errors = @ + 1]
                /\ statsDest' = statsDest
          /\ last'.outcome = "ok" =>
                /\ statsCount'.errors = statsCount.errors
                /\ statsDest' # statsDest
          /\ reqs'.statLookup = reqs.statLookup + 1
          /\ IF pc = "statsLoop"
             THEN /\ exit' = Running
                  /\ IF i < Len(calculateReviewStatistics(activeReviews, now).keys)
                     THEN pc' = "statsLoop" /\ i' = i + 1
                     ELSE pc' = "statsGlobal"
             ELSE /\ pc' = "exited"
                  /\ exit' = [code |-> 0, how |-> "full"]
      ]_vars

\* the lookup or write of the one per-sku record failed, and the global
\* record was written after it
C17_Witness ==
    /\ exit = [code |-> 0, how |-> "full"]
    /\ statsCount.errors = 1
    /\ Cardinality(StatisticsDue) = 2
    /\ { o.fields.product_sku : o \in WrittenStatistics } = {GlobalSku}
    /\ cacheFile.doc.lastSync = now
    /\ stats.productReviews.created = 1

\* the reviews handled so far in the run, and those among them that got an
\* upsert attempt, in the order of handling
HandledInOrder == [j \in DOMAIN log |-> log[j].rev]
AttemptedInOrder ==
    LET tried == SelectSeq(log, LAMBDA e : e.outcome # "skipped")
    IN  [j \in DOMAIN tried |-> tried[j].rev]

IsPrefix(s, t) == Len(s) <= Len(t) /\ s = SubSeq(t, 1, Len(s))

\* C18 as stated: the upsert attempts of a run follow the order of the
\* needs-sync reviews in the filtered active list.
C18_UpsertsInFeedOrder ==
    IsPrefix(AttemptedInOrder,
             SelectSeq(reviewsToSync, LAMBDA r : r.sku = BrandSku \/ Resolvable(r.sku)))

\* C18 amended: the needs-sync reviews keep the order of the filtered active
\* list; the product-path reviews are handled in that order, and after the
\* last of them the brand-path reviews in that order.  So a is attempted
\* before b when a is before b in the list and both are on the same path, or
\* when a is on the product path and b on the brand path.
C18_OrderWithinEachPath ==
    /\ PastDiff =>
          /\ activeReviews = SelectSeq(feed, Syncable)
          /\ reviewsToSync
                = SelectSeq(activeReviews, LAMBDA r : needsSync(loadCache(cacheAtStart), r))
    /\ IsPrefix(HandledInOrder,
                SelectSeq(reviewsToSync, LAMBDA r : r.sku # BrandSku)
                \o SelectSeq(reviewsToSync, LAMBDA r : r.sku = BrandSku))
    /\ PastLoops => Len(log) = Len(reviewsToSync)
    /\ \A j, m \in DOMAIN log :
          (j < m /\ log[j].path = log[m].path) =>
              \E a, b \in DOMAIN reviewsToSync :
                  a < b /\ reviewsToSync[a] = log[j].rev /\ reviewsToSync[b] = log[m].rev
    /\ \A j, m \in DOMAIN log : (log[j].path = "product" /\ log[m].path = "brand") => j < m

\* two product reviews with a brand review between them in the feed: the
\* brand review was upserted last
C18_Witness ==
    /\ PastLoops
    /\ Len(reviewsToSync) = 3
    /\ reviewsToSync[2].sku = BrandSku
    /\ HandledInOrder = <<reviewsToSync[1], reviewsToSync[3], reviewsToSync[2]>>
    /\ \A j \in DOMAIN log : log[j].outcome \in Succeeded
    /\ reviewsToSync[1] # reviewsToSync[3]

SameRun == runNo' = runNo

\* C19: in a run, a step that handles a review (upserts or skips it) comes
\* before the cache file is written and before any statistics request; the
\* step that writes the cache file comes after the last review was handled
\* and before the first statistics request; a step that sends a statistics
\* request comes after both and sends no review upsert.
C19_UpsertsThenCacheThenStatistics ==
    [][ SameRun =>
          /\ (log' # log \/ reqs'.create # reqs.create \/ reqs'.update # reqs.update) =>
                /\ cacheFile' = cacheAtStart
                /\ reqs'.statLookup = 0 /\ reqs'.statWrite = 0
                /\ statsDest' = destAtStart[2]
          /\ cacheFile' # cacheFile =>
                /\ Len(log) = Len(reviewsToSync)
                /\ log' = log
                /\ reqs' = reqs \/ pc = "fetch"
                /\ reqs'.statLookup = 0 /\ reqs'.statWrite = 0
                /\ cacheFile'.doc.lastSync = now
          /\ (reqs'.statLookup # reqs.statLookup \/ reqs'.statWrite # reqs.statWrite
              \/ statsDest' # statsDest) =>
                /\ cacheFile.doc.lastSync = now
                /\ cacheFile' = cacheFile
                /\ cacheFile.doc.reviews = syncCache.reviews
                /\ Len(log) = Len(reviewsToSync)
                /\ log' = log
                /\ reqs'.create = reqs.create /\ reqs'.update = reqs.update
                /\ dest' = dest
      ]_vars

\* a full run that upserted a product review and a brand review, saved the
\* cache and wrote the statistics
C19_Witness ==
    /\ exit.how = "full"
    /\ stats.productReviews.created + stats.productReviews.updated >= 1
    /\ stats.brandReviews.created + stats.brandReviews.updated >= 1
    /\ cacheFile.doc.lastSync = now
    /\ statsCount.created + statsCount.updated >= 3

\* the loop step that handles the review at a multiple of PauseEvery in its
\* path while a further review of that path is waiting
FiftiethStep ==
    /\ pc \in {"productLoop", "brandLoop"}
    /\ i % PauseEvery = 0
    /\ pc' = pc
    /\ i' = i + 1

\* C20: within each path, after the 50th, 100th, ... review of the path has
\* been processed, whatever its outcome (created, updated, skipped as
\* unresolved, validation error or exception), the run pauses before the
\* next review of the path is processed
C20_PauseAfterEveryFiftieth ==
    [][FiftiethStep => last'.paused]_vars

\* the 50th review of the product path was skipped as unresolved, or the
\* upsert of the 50th review of a path threw, and the loop went on to the
\* next review without pausing
C20_Witness ==
    /\ pc \in {"productLoop", "brandLoop"}
    /\ i = PauseEvery + 1
    /\ last.kind = "review"
    /\ last.outcome \notin {"ok", "userErrors"}
    /\ ~last.paused

\* C21: a call of getAllReviews goes through at most one cycle of
\* re-authentication and retry: once the feed has answered 401 a second time
\* the call has failed (and the run with it) instead of sending the request
\* again
C21_OneRetryPerCall ==
    authRetries >= 2 => pc = "exited" /\ exit.how = "fatal"

\* the feed answered 401 twice to one call and the call is about to send the
\* request a third time with the token it held all along
C21_Witness ==
    /\ pc = "fetch"
    /\ authRetries = 2
    /\ reqs.feed = 2
    /\ token = 1

\* the requests of the call that were answered with a page
Answered == SelectSeq(call.local.requested, LAMBDA q : q.status = 200)

\* page p of the feed is short (fewer than PageSize reviews) or is answered
\* without a reviews array
EndsFeed(size, broken, p) == p = broken \/ size - (p - 1) * PageSize < PageSize

FirstEnding(size, broken) ==
    CHOOSE p \in 1..(MaxPages + 1) :
        EndsFeed(size, broken, p) /\ \A q \in 1..(p - 1) : ~EndsFeed(size, broken, q)

\* the reviews of the pages up to the first ending one
FetchedInOrder(size, broken) ==
    LET ending == FirstEnding(size, broken)
        count == IF ending = broken THEN (ending - 1) * PageSize ELSE size
    IN  [k \in 1..count |-> Entry("A", k)]

\* C22: fetchAllReviewsPaginated requests pages 1, 2, ... of size 100 in
\* order (a request answered 401 is repeated for the same page), requests no
\* page after the first page that has fewer than 100 reviews or no reviews
\* array, returns the reviews of all fetched pages in page order, and
\* terminates for every finite feed
C22_PagesInOrderUntilShortPage ==
    /\ [](call.fn = "fetchAllReviewsPaginated" =>
            LET size == call.args[1]
                broken == call.args[2]
                requested == call.local.requested
            IN  /\ \A j \in DOMAIN requested :
                      requested[j].page
                          = 1 + Cardinality({m \in 1..(j - 1) : requested[m].status = 200})
                /\ Len(Answered) <= FirstEnding(size, broken)
                /\ (call.done /\ "error" \notin DOMAIN call.result) =>
                      /\ Len(Answered) = FirstEnding(size, broken)
                      /\ call.result = Returned(FetchedInOrder(size, broken)))
    /\ <>call.done

\* a feed of two full pages was fetched with three answered requests, one
\* of them after a 401
C22_Witness ==
    /\ call.fn = "fetchAllReviewsPaginated"
    /\ call.done
    /\ call.args = <<MaxPages * PageSize, 0>>
    /\ "error" \notin DOMAIN call.result
    /\ Len(call.result.value) = MaxPages * PageSize
    /\ Len(Answered) = MaxPages + 1
    /\ Len(call.local.requested) = MaxPages + 2

\* the last call on the mapper was a lookup that returned a product
LookupFound ==
    \/ last.kind = "getProductIdBySku" /\ last.outcome # NoProduct
    \/ last.kind = "getProductDetailsBySku" /\ last.outcome # NoDetails

\* C23: getProductIdBySku and getProductDetailsBySku return a product only
\* when buildProductCache has fetched every catalog page to completion;
\* after a failed page request aborted the build, no product of the pages
\* fetched so far is returned by a lookup
C23_LookupsOnlyFromFullSnapshot ==
    (call.fn = "ProductMapper" /\ LookupFound) => mapper.cacheFetched

\* the request for the second catalog page failed, and a lookup then
\* returned the product of the first page
C23_Witness ==
    /\ call.fn = "ProductMapper"
    /\ Len(call.args[1]) = 2
    /\ call.local.builds = 1
    /\ reqs.catalog = 2
    /\ faults = 1
    /\ ~mapper.cacheFetched
    /\ last.kind = "getProductIdBySku"
    /\ last.outcome = call.args[1][1][1].id

\* a step in which buildProductCache is called
BuildCalled == call'.local.builds = call.local.builds + 1

\* C24: once a call of buildProductCache has completed successfully, a
\* later call (until clearCache) sends no catalog request and leaves both
\* maps and cacheFetched unchanged; a call that failed leaves cacheFetched
\* false, and a call made while cacheFetched is false requests the catalog
\* from its first page
C24_BuildProductCacheIdempotent ==
    [][call.fn = "ProductMapper" =>
         /\ (BuildCalled /\ mapper.cacheFetched) =>
               /\ reqs' = reqs
               /\ mapper' = mapper
               /\ ~call'.local.building
         /\ (last'.kind = "build" /\ last'.outcome = "error") =>
               /\ ~mapper'.cacheFetched
               /\ ~call'.local.building
         /\ (BuildCalled /\ ~mapper.cacheFetched) =>
               /\ call'.local.building
               /\ call'.local.pageCount = 1
         /\ (last'.kind = "build" /\ last'.outcome = "fetched") =>
               /\ mapper'.cacheFetched
               /\ reqs'.catalog >= Len(call.args[1])]_vars

\* a second call after a successful one returned without a request: the
\* catalog of two pages was requested twice in all
C24_Witness ==
    /\ call.fn = "ProductMapper"
    /\ Len(call.args[1]) = 2
    /\ call.local.builds = 2
    /\ last.kind = "build"
    /\ last.outcome = "noop"
    /\ mapper.cacheFetched
    /\ reqs.catalog = 2

\* C30: getProductDetailsBySku resolves like getProductIdBySku: for every key
\* and every state of the two maps its result is null iff that of
\* getProductIdBySku is, else its productId is the result of
\* getProductIdBySku, and its matchType is 'variant_sku' exactly when the SKU
\* map has an entry for the key and 'product_id' otherwise
C30_DetailsResolveLikeId ==
    (call.fn = "ProductMapper" /\ last.kind = "getProductDetailsBySku") =>
        LET details == last.outcome
            productId == getProductIdBySku(mapper, last.key)
        IN  /\ details = NoDetails <=> productId = NoProduct
            /\ details # NoDetails =>
                  /\ details.productId = productId
                  /\ details.matchType \in {"variant_sku", "product_id"}
                  /\ details.matchType = "variant_sku"
                        <=> last.key \in DOMAIN mapper.skuToProductCache

\* the details of a key that is a variant SKU of one product and the numeric
\* id of another were looked up: the product of the SKU map was returned,
\* tagged 'variant_sku'
C30_Witness ==
    /\ call.fn = "ProductMapper"
    /\ last.kind = "getProductDetailsBySku"
    /\ last.key = "777"
    /\ last.outcome # NoDetails
    /\ last.outcome.matchType = "variant_sku"
    /\ "777" \in DOMAIN mapper.idToProductCache
    /\ mapper.idToProductCache["777"].productId # last.outcome.productId

\* the cache file the run started with holds no usable cache: it is missing,
\* not parsable, or a JSON document without a reviews map
NoUsableCache == cacheAtStart.kind # "json" \/ ~cacheAtStart.doc.hasReviews

\* C25: whatever the state of the persisted cache file (missing, not
\* parsable, or parsable but corrupted such as a JSON document without a
\* reviews map), a run behaves as with an empty cache, i.e. every active
\* review needs sync, and never aborts because of the cache content
C25_CorruptCacheIsEmptyCache ==
    /\ ~(last.kind = "fatal" /\ last.outcome = "cache")
    /\ (NoUsableCache /\ pc \notin {"idle", "auth", "fetch"} /\ Len(activeReviews) > 0) =>
          reviewsToSync = activeReviews

\* a run that started with a JSON document without a reviews map as its
\* cache file and fetched active reviews has exited with code 1 at the diff
C25_Witness ==
    /\ pc = "exited"
    /\ exit.code = 1
    /\ last.kind = "fatal"
    /\ last.outcome = "cache"
    /\ cacheAtStart.kind = "json"
    /\ ~cacheAtStart.doc.hasReviews
    /\ Len(activeReviews) > 0
    /\ reviewsToSync = << >>
    /\ faults = 0

\* cache.reviews as a cache file holds it (none for a file that is missing or
\* not parsable)
PersistedReviews(file) == IF file.kind = "json" THEN file.doc.reviews ELSE EmptyMap

\* ids of the reviews whose upsert succeeded so far in the current run
UpsertedIds == { ToString(log[j].rev.id) : j \in { m \in DOMAIN log : log[m].outcome \in Succeeded } }

\* C26: no run removes an entry from cache.reviews: the key set of the
\* persisted cache never shrinks, and the entry of every review that was not
\* successfully upserted in a run (unchanged, filtered out, absent from the
\* feed, skipped or failed) is the same before and after the run: kept as it
\* was, or absent as it was
C26_CacheEntriesPersist ==
    /\ [][DOMAIN PersistedReviews(cacheFile) \subseteq DOMAIN PersistedReviews(cacheFile')]_vars
    /\ [](\A k \in (DOMAIN PersistedReviews(cacheAtStart)) \cup (DOMAIN PersistedReviews(cacheFile)) :
             k \notin UpsertedIds =>
                /\ k \in DOMAIN PersistedReviews(cacheAtStart)
                /\ k \in DOMAIN PersistedReviews(cacheFile)
                /\ PersistedReviews(cacheFile)[k] = PersistedReviews(cacheAtStart)[k])

\* a full run wrote the cache file: the entry of a review that has left the
\* feed is as it was, next to the entry of a review synced in this run,
\* while another review of the feed was filtered out, skipped or failed
C26_Witness ==
    /\ exit.how = "full"
    /\ cacheFile # cacheAtStart
    /\ ToString(Departed.id) \in DOMAIN PersistedReviews(cacheAtStart)
    /\ PersistedReviews(cacheFile)[ToString(Departed.id)]
          = PersistedReviews(cacheAtStart)[ToString(Departed.id)]
    /\ UpsertedIds # {}
    /\ UpsertedIds \subseteq DOMAIN PersistedReviews(cacheFile)
    /\ Len(feed) > Cardinality(UpsertedIds)

\* the statistics objects of the shop whose product_sku is sku
StatisticsObjectsOf(sku) ==
    { o \in statsDest : "product_sku" \in DOMAIN o.fields /\ o.fields.product_sku = sku }

\* the run has ended with a successful write of the global statistics
GlobalWritten ==
    /\ pc = "exited"
    /\ exit.how \in {"full", "statistics"}
    /\ last.kind = "statistics"
    /\ last.outcome = "ok"

\* C27: after any sequence of statistics syncs (inside syncReviews or by
\* syncReviewStatistics) on a shop that had at most one statistics object per
\* product_sku, the shop has at most one statistics object per product_sku,
\* and exactly one with product_sku "_global_all_reviews" once the write of
\* the global statistics has succeeded
C27_OneStatisticsObjectPerSku ==
    /\ \A o \in statsDest : Cardinality(StatisticsObjectsOf(o.fields.product_sku)) = 1
    /\ GlobalWritten => Cardinality(StatisticsObjectsOf(GlobalSku)) = 1

\* a statistics-only run and then a full run have both written the global
\* statistics of a shop that had none: the first created the object, the
\* second updated it
C27_Witness ==
    /\ runNo = 2
    /\ GlobalWritten
    /\ exit.how = "full"
    /\ prev.how = "statistics"
    /\ destAtStart[2] # {}
    /\ cacheAtStart.kind = "missing"
    /\ Cardinality(StatisticsObjectsOf(GlobalSku)) = 1
    /\ \E o \in StatisticsObjectsOf(GlobalSku) : o.fields.last_updated = now
    /\ Cardinality(statsDest) >= 2

\* positions of the feed's reviews that are neither deleted nor archived and
\* are counted under key k
LiveWithKey(k) ==
    { j \in DOMAIN feed :
        /\ ~feed[j].deleted /\ ~feed[j].archived
        /\ k = GlobalSku \/ FoldedSku(feed[j]) = k }

\* C29: the statistics calculators are handed active reviews only: no
\* statistics object written by a run, be it a full sync or a
\* statistics-only sync, counts a deleted or archived review
C29_StatisticsCountActiveOnly ==
    \A o \in WrittenStatistics :
        \E n \in 0..Cardinality(LiveWithKey(o.fields.product_sku)) :
            o.fields.total_reviews = ToString(n)

\* a statistics-only run on a feed with a deleted review has written global
\* statistics that count every review of the feed
C29_Witness ==
    /\ exit.how = "statistics"
    /\ \E j \in DOMAIN feed : feed[j].deleted
    /\ \E o \in WrittenStatistics :
          /\ o.fields.product_sku = GlobalSku
          /\ o.fields.total_reviews = ToString(Len(feed))

\* the reviews of the feed that are syncable and whose sku is the brand
\* sentinel or resolves to a product
Mirrorable ==
    { r \in Range(feed) : Syncable(r) /\ (r.sku = BrandSku \/ Resolvable(r.sku)) }

\* the fields transformYotpoReview produces from the review as it is now
CurrentFields(r) ==
    transformYotpoReview(r, getProductIdBySku(buildProductCache(NewProductMapper, CatalogPages),
                                              r.sku), 0).fields

\* the review has an object with its yotpo_id made from its current content,
\* and the persisted cache says it needs no sync
IsMirrored(r) ==
    /\ \E o \in dest[TypeOf(r)] :
          /\ o.fields.yotpo_id = ToString(r.id)
          /\ [o.fields EXCEPT !.synced_at = 0] = CurrentFields(r)
    /\ cacheFile.kind = "json"
    /\ cacheFile.doc.hasReviews
    /\ ~needsSync(cacheFile.doc, r)

Occurrences(s, r) == Cardinality({ k \in DOMAIN s : s[k] = r })

PathType(path) == IF path = "brand" THEN BrandType ELSE ProductType
OtherType(type) == IF type = BrandType THEN ProductType ELSE BrandType

\* a step of a run that handles one review
HandlesReview == Len(log') = Len(log) + 1

\* C31: every needs-sync review is handled on exactly one path, once the
\* loops are over; it is on the brand path iff its sku is
\* "yotpo_site_reviews" and on the product path otherwise; a brand-path
\* review is never skipped, is written to yotpo_brand_review only and
\* without product reference; a product-path review is written to
\* yotpo_product_review only; every product-path review is handled before
\* any brand-path review.
C31_PartitionOfStepFour ==
    /\ [](/\ \A j \in DOMAIN log :
                /\ log[j].path \in {"product", "brand"}
                /\ log[j].path = "brand" <=> log[j].rev.sku = BrandSku
                /\ log[j].path = "brand" => log[j].outcome # "skipped"
                /\ Occurrences(HandledInOrder, log[j].rev)
                      <= Occurrences(reviewsToSync, log[j].rev)
          /\ \A j, m \in DOMAIN log :
                (log[j].path = "brand" /\ log[m].path = "product") => m < j
          /\ PastLoops =>
                \A k \in DOMAIN reviewsToSync :
                    Occurrences(HandledInOrder, reviewsToSync[k])
                       = Occurrences(reviewsToSync, reviewsToSync[k]))
    /\ [][HandlesReview =>
            LET e == log'[Len(log')]
                type == PathType(e.path)
                key == ToString(e.rev.id)
            IN  /\ dest'[OtherType(type)] = dest[OtherType(type)]
                /\ mapper' = mapper
                /\ reqs'.catalog = reqs.catalog
                /\ e.outcome \notin Succeeded => dest' = dest
                /\ e.outcome \in Succeeded =>
                      \E o \in dest'[type] :
                          /\ o.fields.yotpo_id = key
                          /\ o.fields.rating = ToString(e.rev.score)
                          /\ e.path = "brand" => "product_reference" \notin DOMAIN o.fields
                          /\ e.path = "product" => "product_reference" \in DOMAIN o.fields]_vars

\* a run on three needs-sync reviews, the brand review first in the feed: the
\* unresolvable product review was skipped, the other product review and
\* then the brand review were written, each to the type of its path
C31_Witness ==
    /\ exit.how = "full"
    /\ Len(reviewsToSync) = 3
    /\ reviewsToSync[1].sku = BrandSku
    /\ Len(log) = 3
    /\ log[1].path = "product" /\ log[1].outcome = "skipped"
    /\ log[2].path = "product" /\ log[2].outcome = "created"
    /\ log[3].path = "brand" /\ log[3].outcome = "created"
    /\ \E o \in dest[ProductType] : o.fields.yotpo_id = ToString(log[2].rev.id)
    /\ \E o \in dest[BrandType] : o.fields.yotpo_id = ToString(log[3].rev.id)

\* ------------------------------------------------------------------------
\* The 401 branch of getAllReviews
\* ------------------------------------------------------------------------
\* a step in which the reviews request of the run is answered 401
Answered401 == last'.kind = "fetch" /\ last'.outcome = "401" /\ reqs'.feed = reqs.feed + 1

\* C32: when the reviews request is answered 401, getAllReviews obtains a
\* new token from the credential grant, so that the repeated request carries
\* a token other than the rejected one.
C32_RetryWithFreshToken == [][Answered401 => token' # token]_vars

\* the reviews request was answered 401 once and the client, holding the
\* token of the first grant, is about to repeat the request
C32_Witness ==
    /\ pc = "fetch"
    /\ last = [kind |-> "fetch", outcome |-> "401"]
    /\ authRetries = 1
    /\ token = 1
    /\ reqs.feed = 1

\* ------------------------------------------------------------------------
\* The summary counters of syncReviews
\* ------------------------------------------------------------------------
OutcomeSum(counts) == counts.created + counts.updated + counts.skipped + counts.errors

OneMoreOutcome(before, after) ==
    /\ OutcomeSum(after) = OutcomeSum(before) + 1
    /\ \A c \in DOMAIN before : after[c] \in {before[c], before[c] + 1}

\* C33: when both review loops of a run are over, created + updated +
\* skipped + errors of productReviews is the number of product-path reviews,
\* created + updated + errors of brandReviews is the number of brand-path
\* reviews and brandReviews.skipped is 0, skuMatches.matched + notFound is
\* the number of product-path reviews with matched = created + updated +
\* errors and notFound = skipped of productReviews, and total = filtered +
\* cached + the number of needs-sync reviews; every step that handles a
\* review adds 1 to exactly one outcome counter of its path and leaves the
\* counters of the other path alone.
C33_SummaryCounters ==
    /\ [](PastLoops =>
            /\ OutcomeSum(stats.productReviews) = Len(productReviews)
            /\ OutcomeSum(stats.brandReviews) = Len(brandReviews)
            /\ stats.brandReviews.skipped = 0
            /\ stats.skuMatches.matched + stats.skuMatches.notFound = Len(productReviews)
            /\ stats.skuMatches.matched
                  = stats.productReviews.created + stats.productReviews.updated
                    + stats.productReviews.errors
            /\ stats.skuMatches.notFound = stats.productReviews.skipped
            /\ stats.total = stats.filtered + stats.cached + Len(reviewsToSync)
            /\ Len(productReviews) + Len(brandReviews) = Len(reviewsToSync))
    /\ [][HandlesReview =>
            IF log'[Len(log')].path = "product"
            THEN /\ OneMoreOutcome(stats.productReviews, stats'.productReviews)
                 /\ stats'.brandReviews = stats.brandReviews
            ELSE /\ OneMoreOutcome(stats.brandReviews, stats'.brandReviews)
                 /\ stats'.productReviews = stats.productReviews
                 /\ stats'.skuMatches = stats.skuMatches]_vars

\* a run on three needs-sync reviews: one product review was skipped, the
\* upsert of the other failed, the brand review was created
C33_Witness ==
    /\ exit.how = "full"
    /\ stats.total = 3 /\ stats.filtered = 0 /\ stats.cached = 0
    /\ stats.productReviews = [created |-> 0, updated |-> 0, skipped |-> 1, errors |-> 1]
    /\ stats.brandReviews = [created |-> 1, updated |-> 0, skipped |-> 0, errors |-> 0]
    /\ stats.skuMatches = [matched |-> 1, notFound |-> 1]

\* ------------------------------------------------------------------------
\* The cache and the destination
\* ------------------------------------------------------------------------
\* the ids that have an entry in a cache document
CachedIds(cache) == IF cache.hasReviews THEN DOMAIN cache.reviews ELSE {}

HasObject(objects, key) == \E o \in objects : o.fields.yotpo_id = key

\* C34: at every point of every run (nothing but the runs deletes at the
\* destination), every review id with an entry in the cache of the run or
\* in the cache file has a destination object with that yotpo_id; the step
\* that writes the entry of a review leaves an object with its yotpo_id in
\* the object type of the path the review was handled on.
C34_CacheImpliesDestination ==
    /\ [](\A k \in CachedIds(syncCache) \cup CachedIds(loadCache(cacheFile)) :
             \E t \in ReviewTypes : HasObject(dest[t], k))
    /\ [][HandlesReview =>
            \A k \in ChangedKeys :
                /\ k = ToString(log'[Len(log')].rev.id)
                /\ HasObject(dest'[PathType(log'[Len(log')].path)], k)]_vars

\* a completed run that created a product review and a brand review and
\* failed on a third: the saved cache has an entry for the two, each with
\* its object in the type of its path, and none for the third
C34_Witness ==
    /\ exit.how = "full"
    /\ Len(log) = 3
    /\ Cardinality(CachedIds(cacheFile.doc)) = 2
    /\ \E j, m, n \in DOMAIN log :
          /\ log[j].path = "product" /\ log[j].outcome = "created"
          /\ log[m].path = "brand" /\ log[m].outcome = "created"
          /\ log[n].outcome \in Failed
          /\ ToString(log[j].rev.id) \in CachedIds(cacheFile.doc)
          /\ ToString(log[m].rev.id) \in CachedIds(cacheFile.doc)
          /\ ToString(log[n].rev.id) \notin CachedIds(cacheFile.doc)
          /\ HasObject(dest[ProductType], ToString(log[j].rev.id))
          /\ HasObject(dest[BrandType], ToString(log[m].rev.id))

\* ------------------------------------------------------------------------
\* The paged scans
\* ------------------------------------------------------------------------
\* every page received starts right after the cursor the loop held, and the
\* cursor held is the end of the page received before
ScanAdvances ==
    \A n \in DOMAIN call.local.requested :
        LET q == call.local.requested
        IN  /\ q[n].first = q[n].after + 1
            /\ q[n].after = IF n = 1 THEN 0 ELSE q[n - 1].last

\* C35: getStatisticsMetaobjectBySku, and the scan of findMetaobjectByYotpoId
\* without cache, go through the pages of the type one after the other and
\* end: with the object that has the key when there is one on any page, with
\* null after the last page otherwise (or with the exception of a failed
\* request).
C35_ScanTerminates ==
    /\ [](call.fn \in ScanFns => ScanAdvances)
    /\ []((call.fn \in ScanFns /\ call.done) =>
             ("value" \in DOMAIN call.result => call.result.value = call.args[2]))
    /\ <>(call.fn \in ScanFns => call.done)

\* 501 statistics objects, the one with the sku on the second page:
\* getStatisticsMetaobjectBySku has received the first page three times and
\* has not returned
C35_Witness ==
    /\ call.fn = "getStatisticsMetaobjectBySku"
    /\ call.args = <<2 * StatPageSize + 1, StatPageSize + 1>>
    /\ ~call.done
    /\ Len(call.local.requested) = MaxScans
    /\ \A n \in DOMAIN call.local.requested :
          call.local.requested[n].first = 1 /\ call.local.requested[n].last = StatPageSize
    /\ call.local.cursor = StatPageSize

\* ------------------------------------------------------------------------
\* Deleted and archived reviews
\* ------------------------------------------------------------------------
\* ids that the feed lists only as deleted or archived
RetiredIds ==
    { feed[k].id : k \in DOMAIN feed } \
        { feed[k].id : k \in { j \in DOMAIN feed : ~feed[j].deleted /\ ~feed[j].archived } }

ObjectsOf(id) == [t \in ReviewTypes |-> { o \in dest[t] : o.fields.yotpo_id = ToString(id) }]

\* C36: every review object of the destination carries is_active "true",
\* also those a run has just written; a review that an earlier run synced
\* and that the feed now lists as deleted or archived is never handled by a
\* run, and no step of any run changes its destination object or its entry
\* in the cache of the run or in the cache file.
C36_RetiredReviewsAreLeftAlone ==
    /\ [](/\ \A t \in ReviewTypes : \A o \in dest[t] : o.fields.is_active = "true"
          /\ \A j \in DOMAIN log : log[j].rev.id \notin RetiredIds)
    /\ [][\A id \in RetiredIds :
            /\ ObjectsOf(id)' = ObjectsOf(id)
            /\ EntryOf(cacheFile'.doc, id) = EntryOf(cacheFile.doc, id)
            /\ runNo' = runNo => EntryOf(syncCache', id) = EntryOf(syncCache, id)
            /\ runNo' # runNo => EntryOf(syncCache', id) = EntryOf(cacheFile.doc, id)]_vars

\* the second run after the review was deleted has completed and has written
\* another review; the object and the cache entry of the deleted review are
\* those of the run that synced it
C36_Witness ==
    /\ runNo = MaxRuns
    /\ exit.how = "full"
    /\ feed[1].deleted
    /\ feed[1].id \in RetiredIds
    /\ \E j \in DOMAIN log : log[j].outcome \in Succeeded
    /\ \E o \in dest[TypeOf(feed[1])] :
          /\ o.fields.yotpo_id = ToString(feed[1].id)
          /\ o.fields.is_active = "true"
          /\ o.fields.synced_at = 1
    /\ EntryOf(cacheFile.doc, feed[1].id)
          = <<[hash |-> createReviewHash(BeforeRetired(feed[1])), lastSynced |-> 1]>>

\* ------------------------------------------------------------------------
\* Per-sku statistics against the global statistics
\* ------------------------------------------------------------------------
RECURSIVE SumOverKeys(_, _, _)
SumOverKeys(recs, keys, field) ==
    IF keys = {} THEN 0
    ELSE LET k == CHOOSE x \in keys : TRUE
         IN  recs[k][field] + SumOverKeys(recs, keys \ {k}, field)

CountedFields == {"totalReviews", "fiveStarCount", "fourStarCount", "threeStarCount",
                  "twoStarCount", "oneStarCount"}

\* the per-sku records of a result add up, field by field, to the global record
AddsUpToGlobal(res, global) ==
    \A field \in CountedFields : SumOverKeys(res.recs, DOMAIN res.recs, field) = global[field]

\* C37: for every non-empty list of reviews calculateReviewStatistics
\* returns records whose totalReviews, and whose counts of each star value,
\* add up over all keys to those of calculateGlobalStatistics on the same
\* list; every review of the list, also one with the brand sentinel or
\* without sku, is counted in the record of exactly one key.
C37_PerSkuRecordsPartitionTheList ==
    (/\ call.fn = "calculateReviewStatistics"
     /\ call.done
     /\ call.args[1] # Missing
     /\ Len(call.args[1]) > 0) =>
        LET l == call.args[1]
            res == call.result
        IN  /\ res # TypeError
            /\ AddsUpToGlobal(res, calculateGlobalStatistics(l, now))
            /\ \A j \in DOMAIN l :
                  Cardinality({ k \in DOMAIN res.recs :
                                  res.recs[k].productSku = FoldedSku(l[j]) }) = 1

\* three reviews with three keys, one of them the brand sentinel and one
\* without sku: three records of one review each
C37_Witness ==
    /\ call.fn = "calculateReviewStatistics"
    /\ call.done
    /\ call.args[1] = <<Scored("A", 5), Scored(BrandSku, 3), Scored("", 3)>>
    /\ DOMAIN call.result.recs = {"A", BrandSku, "unknown"}
    /\ AddsUpToGlobal(call.result, calculateGlobalStatistics(call.args[1], now))
    /\ calculateGlobalStatistics(call.args[1], now).totalReviews = 3

\* ------------------------------------------------------------------------
\* A feed without active reviews
\* ------------------------------------------------------------------------
\* the feed has no review that passes the filter of step 2
NoActiveFeed == SelectSeq(feed, shouldSyncReview) = << >>

\* the state is one of a run of syncReviews that has not gone past the feed
AtOrBeforeFilter == pc \in {"auth", "fetch"} \/ (pc = "exited" /\ exit.how = "noActive")

\* C38: on a feed that is empty or has only reviews that the filter drops, a
\* run of syncReviews whose feed request is answered returns at step 2 with
\* exit code 0; up to and including that return the cache file (with its
\* lastSync) is as it was when the run started, no review object and no
\* statistics object, the global one included, was created or changed, and
\* no request went to the destination.  The early return of the statistics
\* script, taken when there are no per-sku statistics, has no effect either.
C38_NoActiveReviewNoEffect ==
    /\ [](NoActiveFeed =>
            /\ pc \notin {"products", "mcacheProduct", "mcacheBrand", "productLoop",
                          "brandLoop", "save", "statsLoop", "statsGlobal"}
            /\ exit.how \notin {"full", "upToDate"}
            /\ AtOrBeforeFilter =>
                  /\ cacheFile = cacheAtStart
                  /\ syncCache = loadCache(cacheAtStart)
                  /\ <<dest, statsDest>> = destAtStart
                  /\ DestinationRequests = 0
                  /\ WritesDone = 0
            /\ exit.how = "noActive" =>
                  /\ exit.code = 0
                  /\ stats.total = Len(feed)
                  /\ stats.filtered = Len(feed))
    /\ [](exit.how = "noStatistics" =>
            /\ exit.code = 0
            /\ <<dest, statsDest>> = destAtStart
            /\ cacheFile = cacheAtStart
            /\ DestinationRequests = 0)
    /\ [][(NoActiveFeed /\ pc = "fetch" /\ pc' # "fetch" /\ faults' = faults) =>
              exit' = [code |-> 0, how |-> "noActive"]]_vars

\* a shop synced by an earlier run, the feed now holds two reviews that the
\* filter drops: the run has returned, the cache file still has the lastSync
\* of the earlier run, the objects are those of the earlier run
C38_Witness ==
    /\ Len(feed) = 2
    /\ NoActiveFeed
    /\ exit = [code |-> 0, how |-> "noActive"]
    /\ cacheFile = EarlierRun(Departed).cacheFile
    /\ cacheFile.doc.lastSync = 1
    /\ dest = EarlierRun(Departed).dest
    /\ statsDest = EarlierRun(Departed).statsDest
    /\ stats.filtered = 2
    /\ reqs.feed = 1

====
